---- MODULE Spec2Model ----
(***************************************************************************)
(* A model of hivemind-sdk-v2.py: the IPC command dispatcher               *)
(* (run_ipc_server / main_async), the HivemindManager and the three agent  *)
(* kinds (ClaudeAgent, CodexAgent, GeminiAgent) running as cooperative     *)
(* asyncio tasks.  One TLA+ step is the code executed by one coroutine     *)
(* between two suspension points (an await that really blocks); a yield of *)
(* an async generator does not suspend, so the events a turn produces      *)
(* between two awaits are appended to the output in one step.              *)
(*                                                                         *)
(* Text is a sequence of tokens: "x" an ordinary character, " " white      *)
(* space, "H" a role marker of the list in clean_role_markers, "S" a lone  *)
(* surrogate, "?" the replacement character, "P" the context-restore block *)
(* and "-" the rule that separates it from the user's message.             *)
(***************************************************************************)
EXTENDS Integers, Sequences, FiniteSets, TLC

VARIABLES
    stdin_eof,      \* stdin_reader_thread has reached EOF and queued the sentinel
    nread,          \* number of lines the reader thread has queued
    queue,          \* the asyncio.Queue fed by the reader thread
    dpc,            \* where the main coroutine (main_async / run_ipc_server) is
    dctx,           \* its locals: pane, agent, index into agents, final stop_all,
                    \* gathered tasks, and how the loop was left (stop or eof)
    agents,         \* HivemindManager.agents: pane id -> agent object
    objs,           \* every agent object created so far (a restart creates a new one)
    tasks,          \* every task created so far, by task id
    running_tasks,  \* run_ipc_server's running_tasks set
    out,            \* the lines written to stdout, in order
    history,        \* the history journal of each pane (the .jsonl file)
    wire,           \* the queries handed to ClaudeSDKClient.query, in order
    files           \* session-state.json, the pane commands of ui/settings.json,
                    \* whether the tenacity package is installed, and whether
                    \* the history files can be written

vars == << stdin_eof, nread, queue, dpc, dctx, agents, objs, tasks,
           running_tasks, out, history, wire, files >>

----------------------------------------------------------------------------
(* Bounds *)

\* lines read from stdin in one run
MaxCmds == 2
\* provider messages / stdout lines the turns of one run read before their end
MaxEvents == 1
\* turns the commands of one run start (a broadcast starts one per pane)
MaxTurns == 2

\* tokens of the longest message the host sends when the text of a message is
\* what is checked
MaxLen == 4

\* size limit of one history entry
HistoryLimit == 2000

\* sdk_retry's max_attempts
MaxAttempts == 3

----------------------------------------------------------------------------
(* Configuration: the roles the model runs, a prefix of the six of start_all *)

Roster ==
    << [pane_id |-> "1", role |-> "Architect", model |-> "claude"],
       [pane_id |-> "2", role |-> "Infra",     model |-> "codex"] >>

Panes == { Roster[i].pane_id : i \in 1..Len(Roster) }

\* a pane id no role has
UnknownPane == "7"

----------------------------------------------------------------------------
(* Text helpers *)

\* "H" is a role marker as the list of clean_role_markers spells it
\* ("Human:", "HUMAN:", ...); "h" is one in any other letter case ("human:")
IsMarker(tok) == tok = "H"

IsSpace(tok) == tok = " "

RECURSIVE LStrip(_)
LStrip(s) == IF s # <<>> /\ IsSpace(Head(s)) THEN LStrip(Tail(s)) ELSE s

RECURSIVE RStrip(_)
RStrip(s) ==
    IF s # <<>> /\ IsSpace(s[Len(s)]) THEN RStrip(SubSeq(s, 1, Len(s) - 1)) ELSE s

StripWs(s) == RStrip(LStrip(s))

RECURSIVE StripLeadingMarkers(_)
StripLeadingMarkers(s) ==
    IF s # <<>> /\ IsMarker(Head(s)) THEN StripLeadingMarkers(LStrip(Tail(s))) ELSE s

RECURSIVE StripTrailingMarkers(_)
StripTrailingMarkers(s) ==
    IF s # <<>> /\ IsMarker(s[Len(s)])
    THEN StripTrailingMarkers(RStrip(SubSeq(s, 1, Len(s) - 1)))
    ELSE s

\* as if the markers at the end of the text were left in place
MutLeadingOnly(text) ==
    IF text = <<>> THEN text ELSE StripLeadingMarkers(StripWs(text))

clean_role_markers(text) ==
    IF text = <<>> THEN text
    ELSE StripTrailingMarkers(StripLeadingMarkers(StripWs(text)))

sanitize_unicode(text) ==
    [i \in 1..Len(text) |-> IF text[i] = "S" THEN "?" ELSE text[i]]

\* as if an entry were written at its full length
MutNoLimit(s) == s

Truncate(s) == SubSeq(s, 1, IF Len(s) < HistoryLimit THEN Len(s) ELSE HistoryLimit)

----------------------------------------------------------------------------
(* Records *)

\* the end-of-input sentinel (None) the reader thread queues
EOF == [command |-> "__eof__", pane_id |-> "", message |-> <<>>, exclude |-> {}]

Cmd(c, p, m, x) == [command |-> c, pane_id |-> p, message |-> m, exclude |-> x]

\* one line of stdout; turn is the id of the task whose turn produced it (0: none)
Ev(type, pane, turn, info) ==
    [type |-> type, pane |-> pane, turn |-> turn, info |-> info, count |-> 0,
     agents |-> <<>>,
     resumed |-> FALSE,      \* the "resumed" field of connected and agent_started
     keys |-> {}]            \* the payload fields of a tool_use / tool_result event

\* a session token: None, one a saved session-state.json held, or the one the
\* provider announced in turn n
NoToken == [src |-> "none", n |-> 0]

SavedToken == [src |-> "saved", n |-> 0]

ProviderToken(t) == [src |-> "provider", n |-> t]

NewAgent(cfg) ==
    [pane |-> cfg.pane_id, role |-> cfg.role, model |-> cfg.model,
     connected |-> FALSE, client |-> FALSE,
     session_id |-> NoToken,     \* BaseAgent.session_id
     thread_id |-> NoToken,      \* CodexAgent.thread_id
     session_index |-> NoToken,  \* GeminiAgent.session_index
     pending |-> FALSE,      \* _pending_context is set
     made_ctx |-> FALSE,     \* the last connect produced a context-restore message
     process |-> 0,          \* self.process: 0 is None, else the id of the task that spawned it
     intr |-> FALSE]         \* _interrupt_requested

NewTask(kind, pane, msg, excl, parent) ==
    [kind |-> kind, pane |-> pane, msg |-> msg, exclude |-> excl, parent |-> parent,
     pc |-> "created",
     agent |-> 0,            \* the agent object the turn runs on
     cancel |-> FALSE,       \* Task.cancel() was called
     acc |-> <<>>,           \* assistant_response / response_text
     err |-> FALSE,          \* has_error
     nev |-> 0,              \* provider events read
     proc |-> "none",        \* the subprocess the turn spawned: none, running, exited, killed
     resumes |-> NoToken,    \* the session the turn's command line resumes
     fails |-> <<>>,         \* what the attempts of _query_with_retry raised, in order
     waiton |-> 0]           \* the process whose wait() the turn awaits

\* the part of the state the agents' methods read and write
W0 ==
    [objs |-> objs, tasks |-> tasks, out |-> out, history |-> history, wire |-> wire,
     files |-> files]

\* as if a line were written ahead of the lines written before it
MutEmitFirst(W, e) == [W EXCEPT !.out = <<e>> \o @]

Emit(W, e) == [W EXCEPT !.out = Append(@, e)]

\* Process.terminate() on the handle h of an agent
Terminate(tk, h) ==
    IF h # 0 /\ tk[h].proc = "running" THEN [tk EXCEPT ![h].proc = "killed"] ELSE tk

Done(tk) == { t \in 1..Len(tk) : tk[t].pc = "done" }

----------------------------------------------------------------------------
(* Agent connect / disconnect *)

\* get_context_restore_message() is not None: the journal holds an entry
HasContext(W, p) == W.history[p] # <<>>

\* the status event of a connect
Connected(p, resume_id) ==
    [Ev("status", p, 0, "connected") EXCEPT !.resumed = resume_id # NoToken]

\* connect(resume_id) of a CLI agent: no await in it
CliConnect(W, o, resume_id) ==
    LET W1 == IF W.objs[o].model = "codex"
              THEN [W EXCEPT !.objs[o].thread_id = resume_id]
              ELSE [W EXCEPT !.objs[o].session_index = resume_id]
    IN  Emit([W1 EXCEPT !.objs[o].connected = TRUE],
             Connected(W.objs[o].pane, resume_id))

\* ClaudeAgent.connect up to the await of client.connect()
ClaudeConnectBegin(W, o) == [W EXCEPT !.objs[o].client = TRUE]

\* the pending context a successful ClaudeAgent.connect leaves
PendingAfterConnect(has_context) == has_context

\* ClaudeAgent.connect(resume_session_id) after client.connect() returned
ClaudeConnectEnd(W, o, resume_session_id) ==
    LET p == W.objs[o].pane
        ctx == HasContext(W, p)
        W1 == [W EXCEPT !.objs[o].connected = TRUE,
                        !.objs[o].session_id = resume_session_id,
                        !.objs[o].made_ctx = ctx,
                        !.objs[o].pending = PendingAfterConnect(ctx)]
        W2 == Emit(W1, Connected(p, resume_session_id))
    IN  IF ctx THEN Emit(W2, Ev("system", p, 0, "restoring")) ELSE W2

\* whether disconnect() of agent o reaches an await that blocks
DisconnectSuspends(W, o) ==
    LET a == W.objs[o] IN
    \/ a.model = "claude" /\ a.client /\ a.connected
    \/ a.model = "gemini" /\ a.process # 0 /\ W.tasks[a.process].proc = "running"

\* disconnect() up to its await
DisconnectBegin(W, o) ==
    LET a == W.objs[o] IN
    IF a.model = "claude"
    THEN [W EXCEPT !.objs[o].connected = FALSE]
    ELSE [W EXCEPT !.tasks = Terminate(@, a.process)]

\* disconnect() after its await (returned, timed out or raised: all swallowed)
DisconnectEnd(W, o) ==
    LET a == W.objs[o] IN
    IF a.model = "claude"
    THEN Emit(W, Ev("status", a.pane, 0, "disconnected"))
    ELSE Emit([W EXCEPT !.objs[o].connected = FALSE],
              Ev("status", a.pane, 0, "disconnected"))

\* disconnect() when nothing in it blocks
DisconnectSync(W, o) ==
    LET a == W.objs[o] IN
    CASE a.model = "claude" -> W
      [] a.model = "codex" ->
            Emit([W EXCEPT !.tasks = Terminate(@, a.process),
                           !.objs[o].process = 0,
                           !.objs[o].connected = FALSE],
                 Ev("status", a.pane, 0, "disconnected"))
      [] OTHER ->
            Emit([W EXCEPT !.objs[o].connected = FALSE],
                 Ev("status", a.pane, 0, "disconnected"))

SetW(W) ==
    /\ objs' = W.objs
    /\ tasks' = W.tasks
    /\ out' = W.out
    /\ history' = W.history
    /\ wire' = W.wire
    /\ files' = W.files

----------------------------------------------------------------------------
(* Startup: HivemindManager.__init__, start_all, entry of run_ipc_server *)

\* a journal entry left by an earlier run
OldEntry == [role |-> "assistant", content |-> <<"x">>, turn |-> 0]

\* the journals of an empty workspace
FreshJournals == { [p \in Panes |-> <<>>] }

\* the journals an earlier run left: one entry per pane
OldJournals == { [p \in Panes |-> <<OldEntry>>] }

\* the journals found at startup
InitialJournals == FreshJournals \cup OldJournals

\* no pane has a saved session
NoSessions == [p \in {} |-> NoToken]

\* session-state.json: kind is missing (no file), garbage (json.load rejects
\* it), array (JSON, but no object) or object; an object has the keys of
\* other, each with its value, and may have the key sdk_sessions
Store(kind, has_sessions, sessions, other) ==
    [kind |-> kind, has_sessions |-> has_sessions, sdk_sessions |-> sessions,
     other |-> other]

NoStore == Store("missing", FALSE, NoSessions, {})

\* the try of _load_sessions / _save_sessions raises: json.load rejects the
\* file, or what it returns has no get() and takes no key
Unusable(store) == store.kind \in {"garbage", "array"}

\* HivemindManager._load_sessions
_load_sessions(store) ==
    IF store.kind = "object" /\ store.has_sessions THEN store.sdk_sessions
    ELSE NoSessions

\* as if saving dropped what else the file held
MutSaveOnly(store, sessions) == Store("object", TRUE, sessions, {})

\* HivemindManager._save_sessions: the file after it
_save_sessions(store, sessions) ==
    IF Unusable(store) THEN store ELSE Store("object", TRUE, sessions, store.other)

\* saved_sessions.get(pane_id)
SavedFor(sessions, p) == IF p \in DOMAIN sessions THEN sessions[p] ELSE NoToken

\* _load_model_settings of a ui/settings.json without pane commands
NoOverride == [p \in {} |-> ""]

\* the files of a first run with the stock settings
CleanInstall ==
    [store |-> NoStore, models |-> NoOverride, tenacity |-> TRUE, writable |-> TRUE]

\* start_all's override of a config's model by the settings
Configured(cfg, models) ==
    IF cfg.pane_id \in DOMAIN models THEN [cfg EXCEPT !.model = models[cfg.pane_id]]
    ELSE cfg

\* the state when start_all begins, over the journals J and the files F the
\* workspace may hold
BootWith(J, F) ==
    /\ stdin_eof = FALSE
    /\ nread = 0
    /\ queue = <<>>
    /\ dpc = "startup"
    /\ dctx = [pane |-> "", obj |-> 0, idx |-> 1, final |-> FALSE, gathered |-> {},
               sessions |-> NoSessions,
               via |-> ""]
    /\ agents = [p \in {} |-> 0]
    /\ objs = <<>>
    /\ tasks = <<>>
    /\ running_tasks = {}
    /\ out = <<>>
    /\ history \in J
    /\ wire = <<>>
    /\ files \in F

Boot(J) == BootWith(J, {CleanInstall})

Init == Boot(InitialJournals)

\* as if a connect that raised ended start_all
MutAbortStartup(idx, ok) == IF ok THEN idx + 1 ELSE Len(Roster) + 1

\* the config start_all's loop goes on with after the try/except around
\* connect: the next one, whether connect raised or not
NextToStart(idx, ok) == idx + 1

\* the session start_all resumes a config from: the saved one, none for Gemini
ResumeId(cfg, saved_sessions) ==
    IF cfg.model \notin {"gemini"} THEN SavedFor(saved_sessions, cfg.pane_id)
    ELSE NoToken

\* start_all before its loop: the warning of a _load_sessions that failed
LoadSessions(W) ==
    IF Unusable(W.files.store) THEN Emit(W, Ev("warning", "", 0, "load_sessions_failed"))
    ELSE W

\* one iteration of start_all's loop (the first one with what precedes the
\* loop): create the agent, connect it, report; Oks are the outcomes
\* client.connect() can have
StartAgent(Oks) ==
    /\ dpc = "startup"
    /\ dctx.idx <= Len(Roster)
    /\ LET cfg == Configured(Roster[dctx.idx], files.models)
           o == Len(objs) + 1
           resume_id == ResumeId(cfg, _load_sessions(files.store))
           Wl == IF dctx.idx = 1 THEN LoadSessions(W0) ELSE W0
           Wc == [Wl EXCEPT !.objs = Append(@, NewAgent(cfg))]
       IN  \E ok \in (IF cfg.model = "claude" THEN Oks ELSE {TRUE}) :
             LET W1 == IF cfg.model = "claude"
                       THEN IF ok
                            THEN ClaudeConnectEnd(ClaudeConnectBegin(Wc, o), o, resume_id)
                            ELSE ClaudeConnectBegin(Wc, o)
                       ELSE CliConnect(Wc, o, resume_id)
                 W2 == IF ok
                       THEN Emit(W1, [Ev("agent_started", cfg.pane_id, 0, cfg.model)
                                         EXCEPT !.resumed = resume_id # NoToken])
                       ELSE Emit(W1, Ev("error", cfg.pane_id, 0, "start_failed"))
             IN  /\ SetW(W2)
                 /\ agents' = (cfg.pane_id :> o) @@ agents
                 /\ dctx' = [dctx EXCEPT !.idx = NextToStart(@, ok)]
    /\ UNCHANGED << stdin_eof, nread, queue, dpc, running_tasks >>

\* the order of manager.agents.items(): the order in which start_all put the
\* keys in; assigning to a key that is there keeps its place
Order == [i \in 1..Len(Roster) |-> Roster[i].pane_id]

\* as if ready listed no pane
MutNoKeys(ag) == <<>>

\* list(manager.agents.keys())
AgentKeys(ag) == SelectSeq(Order, LAMBDA p : p \in DOMAIN ag)

\* manager._emit("ready", {"agents": list(manager.agents.keys())})
ReadyEvent(ag) == [Ev("ready", "", 0, "agents") EXCEPT !.agents = AgentKeys(ag)]

\* run_ipc_server up to its loop: ready is written, the reader thread starts
EnterLoop ==
    /\ dpc = "startup"
    /\ dctx.idx > Len(Roster)
    /\ out' = Append(out, ReadyEvent(agents))
    /\ dpc' = "loop"
    /\ dctx' = [dctx EXCEPT !.idx = 1]
    /\ UNCHANGED << stdin_eof, nread, queue, agents, objs, tasks, running_tasks,
                    history, wire, files >>

----------------------------------------------------------------------------
(* stdin_reader_thread *)

ReaderStarted == dpc # "startup"

\* the turns a command starts
TurnsOf(c) ==
    CASE c.command = "send" -> 1
      [] c.command = "broadcast" -> Cardinality(Panes \ c.exclude)
      [] OTHER -> 0

RECURSIVE SumTurns(_)
SumTurns(cs) == IF cs = <<>> THEN 0 ELSE TurnsOf(Head(cs)) + SumTurns(Tail(cs))

\* the turns the commands read so far start
TurnsRead ==
    SumTurns(queue)
    + SumTurns([t \in 1..Len(tasks) |->
                  [command |-> IF tasks[t].kind = "send" THEN "send"
                               ELSE IF tasks[t].kind = "bcast" THEN "broadcast"
                               ELSE "child",
                   exclude |-> tasks[t].exclude]])

\* the thread reads one non-empty line and queues it; the host writes a line
\* when the loop has taken the line before
StdinLine(C) ==
    /\ ReaderStarted
    /\ ~stdin_eof
    /\ nread < MaxCmds
    /\ queue = <<>>
    /\ \E c \in C :
         /\ TurnsRead + TurnsOf(c) <= MaxTurns
         /\ queue' = Append(queue, c)
    /\ nread' = nread + 1
    /\ UNCHANGED << stdin_eof, dpc, dctx, agents, objs, tasks, running_tasks, out,
                    history, wire, files >>

\* stdin is closed: the thread queues the sentinel and ends
StdinEOF ==
    /\ ReaderStarted
    /\ ~stdin_eof
    /\ queue = <<>>
    /\ queue' = Append(queue, EOF)
    /\ stdin_eof' = TRUE
    /\ UNCHANGED << nread, dpc, dctx, agents, objs, tasks, running_tasks, out,
                    history, wire, files >>

\* a line that begins with __ERROR__: (the reader thread's report of an
\* exception, or such a line written by the host)
ErrLine == [command |-> "__error__", pane_id |-> "", message |-> <<>>, exclude |-> {}]

\* reading stdin raised: the thread queues the tagged line, then the sentinel,
\* and ends
StdinError ==
    /\ ReaderStarted
    /\ ~stdin_eof
    /\ nread < MaxCmds
    /\ queue = <<>>
    /\ queue' = <<ErrLine, EOF>>
    /\ nread' = nread + 1
    /\ stdin_eof' = TRUE
    /\ UNCHANGED << dpc, dctx, agents, objs, tasks, running_tasks, out, history, wire, files >>

----------------------------------------------------------------------------
(* HivemindManager.stop_all *)

\* stop_all's loop from the i-th agent on, up to the first disconnect() that
\* blocks (obj is that agent) or to the end of the loop (obj is 0)
\* what disconnect() of an agent returns
DisconnectReturn(a) ==
    CASE a.model = "claude" -> a.session_id
      [] a.model = "codex" -> a.thread_id
      [] OTHER -> a.session_index

\* stop_all's sessions after the disconnect() of pane p returned session_id
Collect(sessions, p, session_id) ==
    IF session_id # NoToken
    THEN [q \in DOMAIN sessions \cup {p} |-> IF q = p THEN session_id ELSE sessions[q]]
    ELSE sessions

RECURSIVE StopAllScan(_, _, _)
StopAllScan(W, i, sessions) ==
    IF i > Len(Order) THEN [W |-> W, idx |-> i, obj |-> 0, sessions |-> sessions]
    ELSE LET o == agents[Order[i]]
             W1 == DisconnectSync(W, o)
         IN  IF DisconnectSuspends(W, o)
             THEN [W |-> DisconnectBegin(W, o), idx |-> i, obj |-> o,
                   sessions |-> sessions]
             ELSE StopAllScan(W1, i + 1,
                              Collect(sessions, Order[i], DisconnectReturn(W1.objs[o])))

\* as if all_stopped counted the agents
MutCountAgents(sessions) == Len(Order)

\* len(sessions)
SessionsSaved(sessions) == Cardinality(DOMAIN sessions)

\* stop_all after its loop: _save_sessions (the file is written, or the
\* error), then all_stopped
StopAllEnd(W, sessions) ==
    LET W1 == IF Unusable(W.files.store)
              THEN Emit(W, Ev("error", "", 0, "save_sessions_failed"))
              ELSE [W EXCEPT !.files.store = _save_sessions(@, sessions)]
    IN  Emit(W1, [Ev("all_stopped", "", 0, "") EXCEPT !.count = SessionsSaved(sessions)])

\* the main coroutine from the i-th agent of stop_all to its next await.  After
\* the stop command's stop_all (final is FALSE) the loop breaks and main_async's
\* finally runs stop_all again; after that one the program ends.
StopAllRun(W, i, sessions, final, via) ==
    LET r1 == StopAllScan(W, i, sessions)
        r2 == StopAllScan(StopAllEnd(r1.W, r1.sessions), 1, NoSessions)
        Suspend(r, f) ==
            /\ SetW(r.W)
            /\ dpc' = "stop_disc"
            /\ dctx' = [dctx EXCEPT !.idx = r.idx, !.obj = r.obj, !.final = f,
                                    !.via = via, !.sessions = r.sessions]
        Exit(Wx) ==
            /\ SetW(Wx)
            /\ dpc' = "exited"
            /\ dctx' = [dctx EXCEPT !.idx = 1, !.obj = 0, !.final = TRUE,
                                    !.via = via, !.sessions = NoSessions]
    IN  IF r1.obj # 0 THEN Suspend(r1, final)
        ELSE IF final THEN Exit(StopAllEnd(r1.W, r1.sessions))
        ELSE IF r2.obj # 0 THEN Suspend(r2, TRUE)
        ELSE Exit(StopAllEnd(r2.W, r2.sessions))

----------------------------------------------------------------------------
(* run_ipc_server: the command loop *)

\* as if the loop awaited the tasks it spawned
MutAwaitSpawned == running_tasks

\* the tasks the loop awaits after it spawned a send or broadcast task before
\* it reads the next line: none, create_task returns at once
DispatcherWaitsFor == {}

\* the loop is at queue.get() and a line is there
AtLoop ==
    /\ dpc = "loop"
    /\ queue # <<>>
    /\ DispatcherWaitsFor \subseteq Done(tasks)

\* line is None: break, without a look at running_tasks; main_async's finally
\* then runs stop_all
DispatchEOF ==
    /\ AtLoop
    /\ Head(queue) = EOF
    /\ queue' = Tail(queue)
    /\ StopAllRun(W0, 1, NoSessions, TRUE, "eof")
    /\ UNCHANGED << stdin_eof, nread, agents, running_tasks >>

\* send: spawn the task, keep its handle, go on reading
DispatchSend ==
    /\ AtLoop
    /\ LET c == Head(queue) IN
        /\ c.command = "send"
        /\ c.pane_id # "" /\ c.message # <<>>
        /\ tasks' = Append(tasks, NewTask("send", c.pane_id, c.message, {}, 0))
        /\ running_tasks' = running_tasks \cup {Len(tasks) + 1}
    /\ queue' = Tail(queue)
    /\ UNCHANGED << stdin_eof, nread, dpc, dctx, agents, objs, out, history, wire, files >>

\* broadcast: the same, with manager.broadcast
DispatchBroadcast ==
    /\ AtLoop
    /\ LET c == Head(queue) IN
        /\ c.command = "broadcast"
        /\ c.message # <<>>
        /\ tasks' = Append(tasks, NewTask("bcast", "", c.message, c.exclude, 0))
        /\ running_tasks' = running_tasks \cup {Len(tasks) + 1}
    /\ queue' = Tail(queue)
    /\ UNCHANGED << stdin_eof, nread, dpc, dctx, agents, objs, out, history, wire, files >>

\* restart_agent touches only panes the manager holds
RestartKnown(ag, p) == p \in DOMAIN ag

\* as if restart_agent cleared the history, as its docstring says
MutClearJournal(h, p) == [h EXCEPT ![p] = <<>>]

\* what restart_agent does to the journal of the pane: nothing
JournalAfterRestart(h, p) == h

\* as if the new agent were not put back under its pane
MutDropPane(ag, p, o) == [q \in DOMAIN ag \ {p} |-> ag[q]]

\* self.agents[pane_id] = new_agent
AgentsAfterInstall(ag, p, o) == [ag EXCEPT ![p] = o]

\* as if restart_agent resumed the saved session, as start_all does
MutResumeSaved(W, p) == SavedFor(_load_sessions(W.files.store), p)

\* the resume id restart_agent connects the new agent with: connect() is
\* called without one
RestartResume(W, p) == NoToken

RestartedEvents(W, p, model) ==
    Emit(Emit(W, Ev("agent_restarted", p, 0, model)), Ev("status", p, 0, "idle_restarted"))

\* restart_agent after the old agent's disconnect: new agent, connect()
RestartReconnect(W, p) ==
    LET old == W.objs[agents[p]]
        o2 == Len(W.objs) + 1
        cfg == [pane_id |-> old.pane, role |-> old.role, model |-> old.model]
        W1 == [W EXCEPT !.objs = Append(@, NewAgent(cfg)),
                        !.history = JournalAfterRestart(@, p)]
    IN  /\ agents' = AgentsAfterInstall(agents, p, o2)
        /\ IF old.model = "claude"
           THEN /\ SetW(ClaudeConnectBegin(W1, o2))
                /\ dpc' = "restart_conn"
                /\ dctx' = [dctx EXCEPT !.pane = p, !.obj = o2]
           ELSE /\ SetW(RestartedEvents(CliConnect(W1, o2, RestartResume(W1, p)), p,
                                        old.model))
                /\ dpc' = "loop"
                /\ dctx' = [dctx EXCEPT !.pane = "", !.obj = 0]

DispatchRestart ==
    /\ AtLoop
    /\ LET c == Head(queue)
           p == c.pane_id
       IN  /\ c.command = "restart"
           /\ p # ""
           /\ IF ~RestartKnown(agents, p)
              THEN UNCHANGED << dpc, dctx, agents, objs, tasks, out, history, wire, files >>
              ELSE IF DisconnectSuspends(W0, agents[p])
              THEN /\ SetW(DisconnectBegin(W0, agents[p]))
                   /\ dpc' = "restart_disc"
                   /\ dctx' = [dctx EXCEPT !.pane = p, !.obj = agents[p]]
                   /\ UNCHANGED agents
              ELSE RestartReconnect(DisconnectSync(W0, agents[p]), p)
    /\ queue' = Tail(queue)
    /\ UNCHANGED << stdin_eof, nread, running_tasks >>

\* the old agent's disconnect() is over
RestartDisconnected ==
    /\ dpc = "restart_disc"
    /\ RestartReconnect(DisconnectEnd(W0, dctx.obj), dctx.pane)
    /\ UNCHANGED << stdin_eof, nread, queue, running_tasks >>

\* the new Claude agent's client.connect() returned or raised
RestartConnected(Oks) ==
    /\ dpc = "restart_conn"
    /\ \E ok \in Oks :
         IF ok
         THEN SetW(RestartedEvents(ClaudeConnectEnd(W0, dctx.obj,
                                               RestartResume(W0, dctx.pane)),
                                  dctx.pane, "claude"))
         ELSE SetW(Emit(W0, Ev("error", dctx.pane, 0, "restart_failed")))
    /\ dpc' = "loop"
    /\ dctx' = [dctx EXCEPT !.pane = "", !.obj = 0]
    /\ UNCHANGED << stdin_eof, nread, queue, agents, running_tasks >>

\* interrupt_agent up to the first await of agent.interrupt()
DispatchInterrupt ==
    /\ AtLoop
    /\ LET c == Head(queue)
           p == c.pane_id
       IN  /\ c.command = "interrupt"
           /\ p # ""
           /\ IF p \notin DOMAIN agents
              THEN /\ SetW(Emit(W0, Ev("error", p, 0, "agent_not_found")))
                   /\ UNCHANGED << dpc, dctx >>
              ELSE LET o == agents[p]
                       a == objs[o]
                       live == a.process # 0 /\ tasks[a.process].proc = "running"
                       Wi == [W0 EXCEPT !.objs[o].intr = TRUE,
                                        !.tasks = Terminate(@, a.process)]
                   IN  CASE ~a.connected ->
                              UNCHANGED << dpc, dctx, objs, tasks, out, history, wire, files >>
                         [] a.connected /\ a.model = "claude" ->
                              /\ dpc' = "intr_wait"
                              /\ dctx' = [dctx EXCEPT !.pane = p, !.obj = o]
                              /\ UNCHANGED << objs, tasks, out, history, wire, files >>
                         [] a.connected /\ a.model = "codex" /\ live ->
                              /\ SetW(Wi)
                              /\ dpc' = "intr_wait"
                              /\ dctx' = [dctx EXCEPT !.pane = p, !.obj = o]
                         [] a.connected /\ a.model = "gemini" /\ live ->
                              /\ SetW(Emit(Wi, Ev("interrupted", p, 0, a.role)))
                              /\ UNCHANGED << dpc, dctx >>
                         [] OTHER ->
                              /\ SetW(Emit([W0 EXCEPT !.objs[o].intr = TRUE],
                                           Ev("warning", p, 0, "no_interrupt")))
                              /\ UNCHANGED << dpc, dctx >>
    /\ queue' = Tail(queue)
    /\ UNCHANGED << stdin_eof, nread, agents, running_tasks >>

\* agent.interrupt() returned: client.interrupt() is over, or the terminated
\* process was waited for (2 s, then kill)
InterruptReturned ==
    /\ dpc = "intr_wait"
    /\ LET a == objs[dctx.obj] IN
       \E ok \in (IF a.model = "claude" THEN BOOLEAN ELSE {TRUE}) :
         IF ok
         THEN SetW(Emit(W0, Ev("interrupted", dctx.pane, 0, a.role)))
         ELSE SetW(Emit(W0, Ev("warning", dctx.pane, 0, "no_interrupt")))
    /\ dpc' = "loop"
    /\ dctx' = [dctx EXCEPT !.pane = "", !.obj = 0]
    /\ UNCHANGED << stdin_eof, nread, queue, agents, running_tasks >>

----------------------------------------------------------------------------
(* run_ipc_server: ping, get_sessions and the lines that are answered with an
   error.  A line that is not a JSON object is a record whose command field
   is one of the tags of NotObjects. *)

\* a line json.loads rejects, and a line that is JSON but no object
NotObjects == { "__eof__", "__error__", "__invalid_json__", "__not_object__" }

\* the command names the loop knows
KnownCommands ==
    { "send", "broadcast", "get_sessions", "restart", "stop", "interrupt", "ping" }

\* as if the loop ended with the line it answered
MutAnswerAndQuit(es) ==
    /\ queue' = Tail(queue)
    /\ out' = out \o es
    /\ dpc' = "exited"
    /\ UNCHANGED << stdin_eof, nread, dctx, agents, objs, tasks, running_tasks,
                    history, wire, files >>

\* the loop takes the line at the head of the queue, writes the events es and
\* goes on with the next line
Answer(es) ==
    /\ queue' = Tail(queue)
    /\ out' = out \o es
    /\ UNCHANGED << stdin_eof, nread, dpc, dctx, agents, objs, tasks, running_tasks,
                    history, wire, files >>

\* ping: ready is written again
DispatchPing ==
    /\ AtLoop
    /\ Head(queue).command = "ping"
    /\ Answer(<< ReadyEvent(agents) >>)

\* BaseAgent.get_session_id, which no agent class overrides
get_session_id(a) == a.session_id

\* get_all_sessions: the session ids of the agents that have one
get_all_sessions(ag, ob) ==
    LET held == { p \in DOMAIN ag : get_session_id(ob[ag[p]]) # NoToken }
    IN  [p \in held |-> get_session_id(ob[ag[p]])]

\* get_sessions: the event has the map of get_all_sessions, whose panes are
\* its keys
DispatchGetSessions ==
    /\ AtLoop
    /\ Head(queue).command = "get_sessions"
    /\ Answer(<< [Ev("sessions", "", 0, "sessions")
                    EXCEPT !.keys = DOMAIN get_all_sessions(agents, objs)] >>)

\* line.startswith('__ERROR__:')
DispatchStdinError ==
    /\ AtLoop
    /\ Head(queue).command = "__error__"
    /\ Answer(<< Ev("error", "", 0, "stdin error") >>)

\* json.loads raised JSONDecodeError
DispatchInvalidJSON ==
    /\ AtLoop
    /\ Head(queue).command = "__invalid_json__"
    /\ Answer(<< Ev("error", "", 0, "Invalid JSON") >>)

\* cmd.get raised AttributeError: the except of the loop body
DispatchNotObject ==
    /\ AtLoop
    /\ Head(queue).command = "__not_object__"
    /\ Answer(<< Ev("error", "", 0, "IPC error") >>)

\* f"Unknown command: {command}", over the names the model's host uses; ""
\* is a line without a command field
UnknownMessage(name) ==
    CASE name = "frobnicate" -> "Unknown command: frobnicate"
      [] name = "SEND" -> "Unknown command: SEND"
      [] name = "" -> "Unknown command: None"
      [] OTHER -> "Unknown command"

\* as if an unknown command were answered twice
MutUnknownTwice(name) ==
    << Ev("error", "", 0, UnknownMessage(name)), Ev("error", "", 0, UnknownMessage(name)) >>

\* the else of the chain of commands
UnknownAnswer(name) == << Ev("error", "", 0, UnknownMessage(name)) >>

DispatchUnknown ==
    /\ AtLoop
    /\ Head(queue).command \notin NotObjects \cup KnownCommands
    /\ Answer(UnknownAnswer(Head(queue).command))

\* the fields a command cannot do without
Required(c) ==
    CASE c.command = "send" -> c.pane_id # "" /\ c.message # <<>>
      [] c.command = "broadcast" -> c.message # <<>>
      [] c.command \in {"restart", "interrupt"} -> c.pane_id # ""
      [] OTHER -> TRUE

\* as if a command that lacks a field were dropped without a word
MutSilent(command) == <<>>

\* the else of send, broadcast, restart and interrupt
RequiresAnswer(command) ==
    << Ev("error", "", 0,
          CASE command = "send" -> "send requires pane_id and message"
            [] command = "broadcast" -> "broadcast requires message"
            [] command = "restart" -> "restart requires pane_id"
            [] OTHER -> "interrupt requires pane_id") >>

DispatchMissingField ==
    /\ AtLoop
    /\ Head(queue).command \in {"send", "broadcast", "restart", "interrupt"}
    /\ ~Required(Head(queue))
    /\ Answer(RequiresAnswer(Head(queue).command))

----------------------------------------------------------------------------
(* stop: the bounded drain, stop_all, and the stop_all of main_async's finally *)

Children(tk, t) == { c \in 1..Len(tk) : tk[c].parent = t }

\* Task.cancel() on every task of S that is not done; a task that waits in
\* gather() passes the cancel on to the tasks it gathered
CancelAll(tk, S) ==
    LET hit == { t \in S : tk[t].pc # "done" }
        sub == UNION { Children(tk, t) : t \in { u \in hit : tk[u].pc = "gather" } }
        all == hit \cup { c \in sub : tk[c].pc # "done" }
    IN  [t \in 1..Len(tk) |-> IF t \in all THEN [tk[t] EXCEPT !.cancel = TRUE] ELSE tk[t]]

\* as if stop did not look at running_tasks
MutNoDrain(rt) == {}

\* the tasks the stop command waits for
DrainSet(rt) == rt

DispatchStop ==
    /\ AtLoop
    /\ Head(queue).command = "stop"
    /\ queue' = Tail(queue)
    /\ IF DrainSet(running_tasks) # {}
       THEN /\ dpc' = "drain"
            /\ dctx' = [dctx EXCEPT !.gathered = DrainSet(running_tasks), !.via = "stop"]
            /\ UNCHANGED << objs, tasks, out, history, wire, files >>
       ELSE StopAllRun(W0, 1, NoSessions, FALSE, "stop")
    /\ UNCHANGED << stdin_eof, nread, agents, running_tasks >>

\* gather() returned within the 30 s: every gathered task is done
DrainDone ==
    /\ dpc = "drain"
    /\ dctx.gathered \subseteq Done(tasks)
    /\ StopAllRun(W0, 1, NoSessions, FALSE, "stop")
    /\ UNCHANGED << stdin_eof, nread, queue, agents, running_tasks >>

\* as if the drain had no timeout
MutUnbounded == FALSE

\* wait_for is given a timeout
DrainBounded == TRUE

\* the 30 s elapsed: wait_for cancels the gather, which cancels its tasks, and
\* waits until the cancellation is done
DrainTimeout ==
    /\ dpc = "drain"
    /\ DrainBounded
    /\ ~(dctx.gathered \subseteq Done(tasks))
    /\ tasks' = CancelAll(tasks, dctx.gathered)
    /\ dpc' = "drain_cancel"
    /\ UNCHANGED << stdin_eof, nread, queue, dctx, agents, objs, running_tasks, out,
                    history, wire, files >>

\* len(running_tasks) as the handler of TimeoutError reads it
PendingCount(rt) == Cardinality(rt)

\* the cancelled gather is done: TimeoutError is raised, the warning written
DrainCancelled ==
    /\ dpc = "drain_cancel"
    /\ dctx.gathered \subseteq Done(tasks)
    /\ StopAllRun(Emit(W0, [Ev("warning", "", 0, "shutdown_timeout")
                               EXCEPT !.count = PendingCount(running_tasks)]),
                  1, NoSessions, FALSE, "stop")
    /\ UNCHANGED << stdin_eof, nread, queue, agents, running_tasks >>

\* the disconnect() stop_all waits for is over (2 s at most for Claude, 5 s
\* for Gemini)
StopAllDisconnected ==
    /\ dpc = "stop_disc"
    /\ StopAllRun(DisconnectEnd(W0, dctx.obj), dctx.idx + 1,
                  Collect(dctx.sessions, objs[dctx.obj].pane,
                          DisconnectReturn(objs[dctx.obj])),
                  dctx.final, dctx.via)
    /\ UNCHANGED << stdin_eof, nread, queue, agents, running_tasks >>

\* asyncio.run after main_async returned: every task left is cancelled and run
\* to its end
LoopClose ==
    /\ dpc = "exited"
    /\ \E t \in 1..Len(tasks) : tasks[t].pc # "done" /\ ~tasks[t].cancel
    /\ tasks' = CancelAll(tasks, 1..Len(tasks))
    /\ UNCHANGED << stdin_eof, nread, queue, dpc, dctx, agents, objs, running_tasks,
                    out, history, wire, files >>

----------------------------------------------------------------------------
(* BaseAgent._save_to_history *)

_save_to_history(W, p, role, content, t) ==
    LET cleaned_content == clean_role_markers(content) IN
    IF cleaned_content = <<>> /\ content # <<>>
    THEN W
    ELSE IF ~W.files.writable
    THEN W
    ELSE [W EXCEPT !.history[p] =
            Append(@, [role |-> role, content |-> Truncate(cleaned_content), turn |-> t])]

----------------------------------------------------------------------------
(* A turn: send_message / _send_and_collect driving agent.send *)

FinishTask(W, t) == [W EXCEPT !.tasks[t].pc = "done"]

\* as if no done callback were added to a task
MutNoCallback(rt, tk) == rt

\* the done callback of a task: running_tasks.discard
Discard(rt, tk) == rt \ Done(tk)

\* the text ClaudeAgent.send hands to the client
ClaudeQuery(pending, clean_message) ==
    IF pending THEN <<"P", "-">> \o clean_message ELSE clean_message

\* as if the injection left _pending_context set
MutKeepPending(pending) == pending

\* _pending_context after the injection
PendingAfterSend(pending) == FALSE

\* as if the text handed to the client were saved
MutSaveQuery(message, clean_message) == clean_message

\* the text ClaudeAgent.send saves as the user's entry
UserEntryText(message, clean_message) == sanitize_unicode(message)

\* ClaudeAgent.send up to the await of the query
ClaudeSendStart(W, t, o) ==
    LET a == W.objs[o]
        p == a.pane
        m == W.tasks[t].msg
    IN  IF ~a.client \/ ~a.connected
        THEN FinishTask(Emit(W, Ev("error", p, t, "not_connected")), t)
        ELSE LET clean_message == ClaudeQuery(a.pending, sanitize_unicode(m))
                 W1 == [W EXCEPT !.objs[o].pending = PendingAfterSend(@),
                                 !.wire = Append(@, [pane |-> p, agent |-> o, turn |-> t,
                                                     text |-> clean_message])]
                 W2 == _save_to_history(W1, p, "user", UserEntryText(m, clean_message), t)
                 W3 == Emit(W2, Ev("status", p, t, "thinking"))
             IN  [W3 EXCEPT !.tasks[t].pc = "query"]

\* finally of CodexAgent.send / GeminiAgent.send
CliFinally(W, t, o) ==
    FinishTask(Emit([W EXCEPT !.objs[o].process = 0],
                    Ev("status", W.objs[o].pane, t, "idle")), t)

\* CodexAgent.send / GeminiAgent.send up to the await of the spawn; found is
\* what shutil.which returns
CliSendStart(W, t, o, found) ==
    LET a == W.objs[o]
        p == a.pane
        m == W.tasks[t].msg
    IN  IF ~a.connected
        THEN FinishTask(Emit(W, Ev("error", p, t, "not_connected")), t)
        ELSE LET W1 == _save_to_history(W, p, "user", m, t)
                 W2 == Emit(W1, Ev("status", p, t, "thinking"))
                 W3 == [W2 EXCEPT !.objs[o].intr = FALSE,
                                 !.tasks[t].resumes = IF a.model = "codex"
                                                      THEN a.thread_id
                                                      ELSE a.session_index]
             IN  IF found
                 THEN [W3 EXCEPT !.tasks[t].pc = "spawn"]
                 ELSE CliFinally(Emit(W3, Ev("error", p, t, "cli_not_found")), t, o)

AgentSendStart(W, t, o, found) ==
    LET W1 == [W EXCEPT !.tasks[t].agent = o] IN
    IF W.objs[o].model = "claude" THEN ClaudeSendStart(W1, t, o)
    ELSE CliSendStart(W1, t, o, found)

Runnable(t, pcs) ==
    /\ tasks[t].pc \in pcs
    /\ ~tasks[t].cancel

\* the provider events read so far
RECURSIVE EventsRead(_)
EventsRead(tk) == IF tk = <<>> THEN 0 ELSE Head(tk).nev + EventsRead(Tail(tk))

\* send_message from its start to the first await of the turn; Found are the
\* answers shutil.which can give
SendMessageStart(Found) ==
    \E t \in 1..Len(tasks) :
      /\ Runnable(t, {"created"})
      /\ tasks[t].kind = "send"
      /\ LET p == tasks[t].pane IN
         IF p \notin DOMAIN agents
         THEN SetW(FinishTask(Emit(W0, Ev("error", p, t, "agent_not_found")), t))
         ELSE \E found \in (IF objs[agents[p]].model = "claude" THEN {TRUE} ELSE Found) :
                SetW(AgentSendStart(Emit(W0, Ev("message_received", p, t, "")),
                                    t, agents[p], found))
      /\ running_tasks' = Discard(running_tasks, tasks')
      /\ UNCHANGED << stdin_eof, nread, queue, dpc, dctx, agents >>

\* as if the exclude list were not looked at
MutIgnoreExclude(ag, exclude) == AgentKeys(ag)

\* the panes broadcast sends to: those of self.agents.items() not excluded
BroadcastTargets(ag, exclude) == SelectSeq(AgentKeys(ag), LAMBDA p : p \notin exclude)

\* broadcast from its start to its gather: one task per pane not excluded
BroadcastStart ==
    \E t \in 1..Len(tasks) :
      /\ Runnable(t, {"created"})
      /\ tasks[t].kind = "bcast"
      /\ LET targets == BroadcastTargets(agents, tasks[t].exclude)
             kids == [i \in 1..Len(targets) |->
                        NewTask("child", targets[i], tasks[t].msg, {}, t)]
         IN  tasks' = [tasks EXCEPT ![t].pc = IF targets = <<>> THEN "done" ELSE "gather"]
                      \o kids
      /\ running_tasks' = Discard(running_tasks, tasks')
      /\ UNCHANGED << stdin_eof, nread, queue, dpc, dctx, agents, objs, out, history,
                      wire, files >>

\* _send_and_collect from its start to the first await of the turn
ChildStart(Found) ==
    \E t \in 1..Len(tasks) :
      /\ Runnable(t, {"created"})
      /\ tasks[t].kind = "child"
      /\ \E found \in (IF objs[agents[tasks[t].pane]].model = "claude"
                        THEN {TRUE} ELSE Found) :
            SetW(AgentSendStart(W0, t, agents[tasks[t].pane], found))
      /\ UNCHANGED << stdin_eof, nread, queue, dpc, dctx, agents, running_tasks >>

\* the gather of a broadcast returns when its tasks are done
BroadcastDone ==
    \E t \in 1..Len(tasks) :
      /\ tasks[t].pc = "gather"
      /\ Children(tasks, t) \subseteq Done(tasks)
      /\ tasks' = [tasks EXCEPT ![t].pc = "done"]
      /\ running_tasks' = Discard(running_tasks, tasks')
      /\ UNCHANGED << stdin_eof, nread, queue, dpc, dctx, agents, objs, out, history,
                      wire, files >>

----------------------------------------------------------------------------
(* ClaudeAgent.send after its first await *)

\* as if the end of a turn marked the agent disconnected
MutFinallyDrops(W, t) ==
    FinishTask(Emit([W EXCEPT !.objs[W.tasks[t].agent].connected = FALSE],
                    Ev("status", W.tasks[t].pane, t, "idle")), t)

\* finally of ClaudeAgent.send
ClaudeFinally(W, t) ==
    FinishTask(Emit(W, Ev("status", W.tasks[t].pane, t, "idle")), t)

\* client.query returned
ClaudeQuerySent ==
    \E t \in 1..Len(tasks) :
      /\ Runnable(t, {"query"})
      /\ tasks' = [tasks EXCEPT ![t].pc = "recv"]
      /\ UNCHANGED << stdin_eof, nread, queue, dpc, dctx, agents, objs, running_tasks,
                      out, history, wire, files >>

\* the attempts of turn t to hand its query to the client
Attempts(w, t) == Cardinality({ i \in 1..Len(w) : w[i].turn = t })

\* as if every exception were retried
MutRetryAll(tenacity, kind, attempts) == tenacity /\ attempts < MaxAttempts

\* sdk_retry: whether an attempt that raised is followed by another one.
\* kind is transient for the RETRYABLE_EXCEPTIONS, fatal for the others
Retries(tenacity, kind, attempts) ==
    tenacity /\ kind = "transient" /\ attempts < MaxAttempts

\* what _query_with_retry raises when it gives up after an attempt raised
\* kind: with reraise=True the attempt's own exception, never RetryError
Reraised(kind) == kind

\* the message of the except clause of ClaudeAgent.send that catches exc
ErrorMessage(exc) == IF exc = "RetryError" THEN "retry_failed" ELSE "exception"

\* client.query raised in an attempt: the wait before the next attempt, or
\* the exception goes on to send's except clauses and the finally
ClaudeQueryFailed(Kinds) ==
    \E t \in 1..Len(tasks) :
      /\ Runnable(t, {"query"})
      /\ \E kind \in Kinds :
           LET W1 == [W0 EXCEPT !.tasks[t].fails = Append(@, kind)] IN
           IF Retries(files.tenacity, kind, Attempts(wire, t))
           THEN SetW([W1 EXCEPT !.tasks[t].pc = "backoff"])
           ELSE SetW(ClaudeFinally(Emit(W1, Ev("error", tasks[t].pane, t,
                                               ErrorMessage(Reraised(kind)))), t))
      /\ running_tasks' = Discard(running_tasks, tasks')
      /\ UNCHANGED << stdin_eof, nread, queue, dpc, dctx, agents >>

\* the wait between two attempts is over: the query is handed to the client
\* again
ClaudeRetry ==
    \E t \in 1..Len(tasks) :
      /\ Runnable(t, {"backoff"})
      /\ LET last == CHOOSE i \in 1..Len(wire) :
                        /\ wire[i].turn = t
                        /\ \A j \in 1..Len(wire) : wire[j].turn = t => j <= i
         IN  wire' = Append(wire, wire[last])
      /\ tasks' = [tasks EXCEPT ![t].pc = "query"]
      /\ UNCHANGED << stdin_eof, nread, queue, dpc, dctx, agents, objs, running_tasks,
                      out, history, files >>

\* the query or the receive loop raised: error, then the finally
ClaudeRaised ==
    \E t \in 1..Len(tasks) :
      /\ Runnable(t, {"query", "recv"})
      /\ SetW(ClaudeFinally(Emit(W0, Ev("error", tasks[t].pane, t, "exception")), t))
      /\ running_tasks' = Discard(running_tasks, tasks')
      /\ UNCHANGED << stdin_eof, nread, queue, dpc, dctx, agents >>

\* an AssistantMessage with one TextBlock arrives
ClaudeAssistant(R) ==
    \E t \in 1..Len(tasks) :
      /\ Runnable(t, {"recv"})
      /\ EventsRead(tasks) < MaxEvents
      /\ \E txt \in R :
           SetW([Emit(W0, Ev("assistant", tasks[t].pane, t, "text"))
                    EXCEPT !.tasks[t].acc = @ \o txt \o <<" ">>,
                           !.tasks[t].nev = @ + 1])
      /\ UNCHANGED << stdin_eof, nread, queue, dpc, dctx, agents, running_tasks >>

\* the ResultMessage arrives: the assistant entry, result, and the finally
ClaudeResult ==
    \E t \in 1..Len(tasks) :
      /\ Runnable(t, {"recv"})
      /\ LET p == tasks[t].pane
             final_response == clean_role_markers(tasks[t].acc)
             W1 == IF final_response # <<>>
                   THEN _save_to_history(W0, p, "assistant", final_response, t)
                   ELSE W0
             W2 == [W1 EXCEPT !.objs[tasks[t].agent].session_id = ProviderToken(t)]
         IN  SetW(ClaudeFinally(Emit(W2, Ev("result", p, t, "ok")), t))
      /\ running_tasks' = Discard(running_tasks, tasks')
      /\ UNCHANGED << stdin_eof, nread, queue, dpc, dctx, agents >>

----------------------------------------------------------------------------
(* CodexAgent.send / GeminiAgent.send after their first await *)

\* how a process that ended can have ended: exit 0, non-zero with text on
\* stderr, non-zero with nothing on stderr, non-zero with the CLI's report
\* on stderr that the thread to resume was not found or has expired
CliExitResults(proc) ==
    IF proc = "exited" THEN {"ok", "fail_msg", "fail_quiet", "fail_expired"}
    ELSE {"fail_msg", "fail_quiet"}

\* the error written for a non-zero exit with text on stderr: Codex reports
\* the exit code and the text, Gemini the text
ExitMessage(model, res) ==
    IF model # "codex" THEN "cli_stderr"
    ELSE IF res = "fail_expired" THEN "exit_code_thread_not_found"
    ELSE "exit_code"

\* from process.wait() returning to the end of the turn
CliTurnEnd(W, t, o, res) ==
    LET a == W.objs[o]
        p == a.pane
        acc == W.tasks[t].acc
        failed == res \in {"fail_msg", "fail_expired"}
        W1 == IF failed
              THEN Emit(W, Ev("error", p, t, ExitMessage(a.model, res)))
              ELSE W
        text == IF a.model = "codex" THEN StripWs(acc) ELSE clean_role_markers(acc)
        W2 == IF text # <<>> THEN _save_to_history(W1, p, "assistant", text, t) ELSE W1
        is_error == W.tasks[t].err \/ failed
        W3 == Emit(W2, Ev("result", p, t, IF is_error THEN "is_error" ELSE "ok"))
    IN  CliFinally(W3, t, o)

\* the code after the read loop: self.process.wait() on whatever handle the
\* agent holds now; X are the ways a process can end
CliAfterLoop(W, t, X) ==
    LET o == W.tasks[t].agent
        h == W.objs[o].process
    IN  IF h = 0
        THEN SetW(CliFinally(Emit(W, Ev("error", W.objs[o].pane, t, "cli_error")), t, o))
        ELSE IF W.tasks[h].proc = "running"
        THEN SetW([W EXCEPT !.tasks[t].pc = "wait", !.tasks[t].waiton = h])
        ELSE \E res \in CliExitResults(W.tasks[h].proc) \cap X : SetW(CliTurnEnd(W, t, o, res))

\* create_subprocess_exec returned or raised
CliSpawned(Oks) ==
    \E t \in 1..Len(tasks) :
      /\ Runnable(t, {"spawn"})
      /\ LET o == tasks[t].agent IN
         \E ok \in Oks :
           IF ok
           THEN SetW([W0 EXCEPT !.objs[o].process = t,
                                !.tasks[t].proc = "running",
                                !.tasks[t].pc = "read"])
           ELSE SetW(CliFinally(Emit(W0, Ev("error", tasks[t].pane, t, "cli_error")), t, o))
      /\ running_tasks' = Discard(running_tasks, tasks')
      /\ UNCHANGED << stdin_eof, nread, queue, dpc, dctx, agents >>

\* a line of stdout arrives: break if an interrupt was requested, else the
\* event it parses to
CliLine(R, X) ==
    \E t \in 1..Len(tasks) :
      /\ Runnable(t, {"read"})
      /\ tasks[t].proc = "running"
      /\ EventsRead(tasks) < MaxEvents
      /\ LET o == tasks[t].agent
             p == tasks[t].pane
             Wn == [W0 EXCEPT !.tasks[t].nev = @ + 1]
         IN  IF objs[o].intr
             THEN CliAfterLoop(Wn, t, X)
             ELSE \E txt \in R :
                    LET W1 == IF objs[o].model = "gemini"
                              THEN Emit(Wn, Ev("status", p, t, "responding"))
                              ELSE Wn
                    IN  SetW([Emit(W1, Ev("text_delta", p, t, "text"))
                                 EXCEPT !.tasks[t].acc = @ \o txt])
      /\ running_tasks' = Discard(running_tasks, tasks')
      /\ UNCHANGED << stdin_eof, nread, queue, dpc, dctx, agents >>

\* the lines of a CLI's JSON stream that are no text: the announcement of the
\* session (thread.started / init), the start and the end of a tool call, the
\* report of a failure (turn.failed / error) and a result whose status is
\* not success
ProviderLines == { "session", "tool_use", "tool_result", "failed", "bad_result" }

\* the event of a turn with the payload fields ks
Payload(type, p, t, ks) == [Ev(type, p, t, "") EXCEPT !.keys = ks]

\* CodexAgent._parse_codex_event and what send does with its result
_parse_codex_event(W, t, o, line) ==
    LET p == W.objs[o].pane IN
    CASE line = "session" ->
            Emit([W EXCEPT !.objs[o].thread_id = ProviderToken(t)],
                 Ev("status", p, t, "thread_started"))
      [] line = "tool_use" -> Emit(W, Payload("tool_use", p, t, {"name", "input"}))
      [] line = "tool_result" ->
            Emit(W, Payload("tool_result", p, t, {"content", "is_error"}))
      [] line = "failed" -> Emit(W, Ev("error", p, t, "turn_failed"))
      [] OTHER -> W

\* the branches of GeminiAgent.send's loop for the events of the stream
GeminiEvent(W, t, o, line) ==
    LET p == W.objs[o].pane IN
    CASE line = "session" -> [W EXCEPT !.objs[o].session_id = ProviderToken(t)]
      [] line = "tool_use" -> Emit(W, Payload("tool_use", p, t, {"tool", "args"}))
      [] line = "tool_result" -> Emit(W, Payload("tool_result", p, t, {"tool", "result"}))
      [] line = "failed" ->
            Emit([W EXCEPT !.tasks[t].err = TRUE], Ev("error", p, t, "provider_error"))
      [] OTHER -> [W EXCEPT !.tasks[t].err = TRUE]

\* a line of stdout that is no text arrives: break if an interrupt was
\* requested, else the event it parses to; L are the lines the CLI writes
CliProviderLine(L, X) ==
    \E t \in 1..Len(tasks) :
      /\ Runnable(t, {"read"})
      /\ tasks[t].proc = "running"
      /\ EventsRead(tasks) < MaxEvents
      /\ LET o == tasks[t].agent
             Wn == [W0 EXCEPT !.tasks[t].nev = @ + 1]
         IN  IF objs[o].intr
             THEN CliAfterLoop(Wn, t, X)
             ELSE \E line \in L :
                    IF objs[o].model = "codex"
                    THEN SetW(_parse_codex_event(Wn, t, o, line))
                    ELSE SetW(GeminiEvent(Wn, t, o, line))
      /\ running_tasks' = Discard(running_tasks, tasks')
      /\ UNCHANGED << stdin_eof, nread, queue, dpc, dctx, agents >>

\* stdout ends: the process ended by itself, or was terminated
CliEOF(X) ==
    \E t \in 1..Len(tasks) :
      /\ Runnable(t, {"read"})
      /\ CliAfterLoop([W0 EXCEPT !.tasks[t].proc =
                          IF @ = "running" THEN "exited" ELSE @], t, X)
      /\ running_tasks' = Discard(running_tasks, tasks')
      /\ UNCHANGED << stdin_eof, nread, queue, dpc, dctx, agents >>

\* the process the turn waits for has ended
CliWaited(X) ==
    \E t \in 1..Len(tasks) :
      /\ Runnable(t, {"wait"})
      /\ CliAfterLoop([W0 EXCEPT !.tasks[tasks[t].waiton].proc =
                          IF @ = "running" THEN "exited" ELSE @], t, X)
      /\ running_tasks' = Discard(running_tasks, tasks')
      /\ UNCHANGED << stdin_eof, nread, queue, dpc, dctx, agents >>

\* CancelledError is thrown into the task at its await: only the finally of
\* the turn runs
TaskCancelled ==
    \E t \in 1..Len(tasks) :
      /\ tasks[t].cancel
      /\ tasks[t].pc \notin {"done", "gather"}
      /\ CASE tasks[t].pc = "created" -> SetW(FinishTask(W0, t))
           [] tasks[t].pc \in {"query", "backoff", "recv"} -> SetW(ClaudeFinally(W0, t))
           [] OTHER -> SetW(CliFinally(W0, t, tasks[t].agent))
      /\ running_tasks' = Discard(running_tasks, tasks')
      /\ UNCHANGED << stdin_eof, nread, queue, dpc, dctx, agents >>

----------------------------------------------------------------------------
(* Specifications *)

Targets == Panes \cup {UnknownPane}

\* every way a process can end
AllExits == {"ok", "fail_msg", "fail_quiet"}

\* the texts the providers answer with
CoreReplies == { <<"x">> }

\* the commands the host sends
CoreCmds ==
    { Cmd("send", p, <<"x">>, {}) : p \in Targets }
    \cup { Cmd("restart", p, <<>>, {}) : p \in Targets }
    \cup { Cmd("interrupt", p, <<>>, {}) : p \in Panes }
    \cup { Cmd("broadcast", "", <<"x">>, {}), Cmd("stop", "", <<>>, {}) }

Startup == StartAgent(BOOLEAN) \/ EnterLoop

\* the stop command
StopPath ==
    \/ DispatchStop
    \/ DrainDone
    \/ DrainTimeout
    \/ DrainCancelled
    \/ StopAllDisconnected
    \/ TaskCancelled

\* the end of stdin
EofPath ==
    \/ StdinEOF
    \/ DispatchEOF
    \/ LoopClose

ClaudeTurn(R) ==
    \/ ClaudeQuerySent
    \/ ClaudeAssistant(R)
    \/ ClaudeResult

CliTurn(R, X) ==
    \/ CliSpawned({TRUE})
    \/ CliLine(R, X)
    \/ CliEOF(X)

Next ==
    \/ Startup
    \/ StdinLine(CoreCmds)
    \/ DispatchSend
    \/ DispatchBroadcast
    \/ DispatchRestart
    \/ RestartDisconnected
    \/ RestartConnected(BOOLEAN)
    \/ DispatchInterrupt
    \/ InterruptReturned
    \/ StopPath
    \/ EofPath
    \/ SendMessageStart({TRUE})
    \/ BroadcastStart
    \/ ChildStart({TRUE})
    \/ BroadcastDone
    \/ ClaudeTurn(CoreReplies)
    \/ ClaudeRaised
    \/ CliTurn(CoreReplies, AllExits)
    \/ CliWaited(AllExits)

Spec == Init /\ [][Next]_vars

----------------------------------------------------------------------------
(* Turns in flight: sends to the two panes, no shutdown *)

TurnCmds == { Cmd("send", p, <<"x">>, {}) : p \in Panes }

NextTurns ==
    \/ StartAgent({TRUE})
    \/ EnterLoop
    \/ StdinLine(TurnCmds)
    \/ DispatchSend
    \/ SendMessageStart({TRUE})
    \/ ClaudeTurn(CoreReplies)
    \/ ClaudeRaised
    \/ CliTurn(CoreReplies, AllExits)
    \/ CliWaited(AllExits)

SpecTurns == Boot(FreshJournals) /\ [][NextTurns]_vars

\* the turns that are past their start and not at their end
InTurn == { t \in 1..Len(tasks) : tasks[t].agent # 0 /\ tasks[t].pc # "done" }

\* the events of the turns, by position in the output
TurnEvents == { i \in 1..Len(out) : out[i].turn # 0 }

\* turn t has written its last event
TurnOver(t, upto) ==
    \E i \in 1..upto : out[i].turn = t /\ out[i].type \in {"status", "error"}
                       /\ out[i].info \in {"idle", "not_connected", "agent_not_found"}

\* C1: the event streams of two turns on one pane never interleave, and no
\* two turns are in flight on one agent (one subprocess or client handle)
C1_Serialized ==
    /\ \A i, j, k \in TurnEvents :
         (i < j /\ j < k /\ out[i].pane = out[j].pane /\ out[i].turn = out[k].turn)
            => out[j].turn = out[i].turn
    /\ \A t, u \in InTurn : tasks[t].agent = tasks[u].agent => t = u

\* C2: the loop never waits for a turn: a send command at the head of the
\* queue is taken by the loop whatever turns are in flight
C2_NeverAwaits ==
    (dpc = "loop" /\ queue # <<>> /\ Head(queue).command = "send")
       => ENABLED DispatchSend

\* message_received of a later send to another pane is written while the
\* turn of the first pane has no result yet, and the two streams interleave
C2_Witness ==
    \E i, j, k \in TurnEvents :
       /\ i < j /\ j < k
       /\ out[i].type = "message_received" /\ out[j].type = "message_received"
       /\ out[i].pane # out[j].pane
       /\ out[i].turn < out[j].turn
       /\ ~TurnOver(out[i].turn, j)
       /\ out[k].turn = out[i].turn

----------------------------------------------------------------------------
(* Shutdown: sends and stop; and the same with the end of stdin *)

StopCmds == TurnCmds \cup { Cmd("stop", "", <<>>, {}) }

NextStop ==
    \/ StartAgent({TRUE})
    \/ EnterLoop
    \/ StdinLine(StopCmds)
    \/ DispatchSend
    \/ StopPath
    \/ SendMessageStart({TRUE})
    \/ ClaudeTurn(CoreReplies)
    \/ ClaudeRaised
    \/ CliTurn(CoreReplies, AllExits)
    \/ CliWaited(AllExits)

SpecStop == Boot(FreshJournals) /\ [][NextStop]_vars

\* the scheduler runs the main coroutine and delivers cancellations, and the
\* timers of wait_for fire; nothing is assumed of the providers
FairStop ==
    /\ WF_vars(DrainDone \/ DrainTimeout \/ DrainCancelled \/ StopAllDisconnected)
    /\ WF_vars(TaskCancelled)

FairSpecStop == SpecStop /\ FairStop

NextEof == NextStop \/ EofPath

SpecEof == Boot(FreshJournals) /\ [][NextEof]_vars

\* the drain of the stop command ran into its timeout
TimedOut == \E t \in dctx.gathered : tasks[t].cancel

\* the shutdown warnings written
TimeoutWarnings == { i \in 1..Len(out) : out[i].info = "shutdown_timeout" }

\* the events stop_all writes
StopEvents ==
    { i \in 1..Len(out) :
        \/ out[i].type = "all_stopped"
        \/ out[i].type = "status" /\ out[i].info = "disconnected" }

\* C3: after a stop whose drain did not time out, every event of every turn
\* precedes every disconnected and all_stopped event, every gathered task is
\* done before stop_all begins, and the loop takes no further command
C3_StopDrains ==
    (dctx.via = "stop" /\ ~TimedOut) =>
        /\ dpc \in {"drain", "stop_disc", "exited"}
        /\ TimeoutWarnings = {}
        /\ dpc # "drain" => dctx.gathered \subseteq Done(tasks)
        /\ \A i \in StopEvents : \A j \in TurnEvents : j < i

\* a stop found a turn in flight, waited for it, and the program ended
C3_Witness ==
    /\ dctx.via = "stop" /\ ~TimedOut
    /\ dpc = "exited"
    /\ dctx.gathered # {}
    /\ \E j \in TurnEvents : out[j].turn \in dctx.gathered /\ out[j].type = "result"
    /\ StopEvents # {}

\* C4: when the drain timed out on a turn, a shutdown warning that counts at
\* least one pending task is written before all_stopped
C4_PendingCounted ==
    (dctx.via = "stop" /\ dpc \in {"stop_disc", "exited"} /\ TimedOut)
    => \E j \in TimeoutWarnings :
          /\ out[j].count >= 1
          /\ \A i \in 1..Len(out) : out[i].type = "all_stopped" => j < i

\* C5: once stop is taken the program ends and all_stopped is written
C5_StopTerminates ==
    (dctx.via = "stop") ~>
        (dpc = "exited" /\ \E i \in 1..Len(out) : out[i].type = "all_stopped")

\* a stop whose drain timed out on a turn that did not end has ended
C5_Witness ==
    /\ dctx.via = "stop" /\ dpc = "exited"
    /\ TimedOut
    /\ TimeoutWarnings # {}

\* C6: when the end of stdin is taken, no turn is left in flight once the
\* agents are being disconnected
C6_EofDrains ==
    dctx.via = "eof" => \A t \in 1..Len(tasks) : tasks[t].pc = "done"

----------------------------------------------------------------------------
(* Context restore: sends to and restarts of the Claude pane *)

ClaudePane == "1"

CtxCmds == { Cmd("send", ClaudePane, <<"x">>, {}), Cmd("restart", ClaudePane, <<>>, {}) }

NextCtx ==
    \/ Startup
    \/ StdinLine(CtxCmds)
    \/ DispatchSend
    \/ DispatchRestart
    \/ RestartDisconnected
    \/ RestartConnected(BOOLEAN)
    \/ SendMessageStart({TRUE})
    \/ ClaudeTurn(CoreReplies)
    \/ ClaudeRaised

SpecCtx == Init /\ [][NextCtx]_vars

\* the queries agent object o handed to its client, in order
WireOf(o) == SelectSeq(wire, LAMBDA w : w.agent = o)

HasPreamble(text) == text # <<>> /\ Head(text) = "P"

\* C7: of the queries of one agent object (one connect), the first carries
\* the preamble if that connect produced one, and no other query carries it
C7_PreambleOnce ==
    \A o \in 1..Len(objs) :
       LET q == WireOf(o) IN
       \A i \in 1..Len(q) :
          /\ HasPreamble(q[i].text) <=> (i = 1 /\ objs[o].made_ctx)
          /\ q[i].text \in { <<"x">>, <<"P", "-", "x">> }

\* two sends overlap on an agent whose connect produced a preamble, and the
\* query of the first of them failed
C7_Witness ==
    \E o \in 1..Len(objs) :
       LET q == WireOf(o) IN
       /\ objs[o].made_ctx
       /\ Len(q) >= 2
       /\ HasPreamble(q[1].text)
       /\ \E i, j \in TurnEvents :
            /\ i < j
            /\ out[i].turn = q[2].turn /\ out[i].info = "thinking"
            /\ out[j].turn = q[1].turn /\ out[j].info = "exception"

----------------------------------------------------------------------------
(* Journals and the roster, under every command *)

IsPrefix(a, b) == Len(a) <= Len(b) /\ SubSeq(b, 1, Len(a)) = a

C10_OnePerPane ==
    dpc # "startup" =>
       /\ DOMAIN agents = Panes
       /\ \A p \in Panes : agents[p] \in 1..Len(objs) /\ objs[agents[p]].pane = p

\* a restart failed, a restart replaced an agent and an unknown pane was
\* addressed
C10_Witness ==
    /\ dpc = "loop"
    /\ Len(objs) > Len(Roster)
    /\ \E i \in 1..Len(out) : out[i].info \in {"restart_failed", "agent_not_found"}
    /\ \E i \in 1..Len(out) : out[i].info = "start_failed"

----------------------------------------------------------------------------
(* History entries: one turn after another, over messages and answers that
   hold role markers, white space and lone surrogates *)

HistMsgs == { <<"x">>, <<"H">>, <<" ">>, <<"H", "x">>, <<"S">> }

HistCmds == { Cmd("send", p, m, {}) : p \in Panes, m \in HistMsgs }

HistReplies == { <<"x">>, <<"H">> }

\* the host writes a line when no turn is in flight
HostWaits(C) ==
    /\ \A t \in 1..Len(tasks) : tasks[t].pc = "done"
    /\ StdinLine(C)

NextHist ==
    \/ StartAgent({TRUE})
    \/ EnterLoop
    \/ HostWaits(HistCmds)
    \/ DispatchSend
    \/ SendMessageStart(BOOLEAN)
    \/ ClaudeTurn(HistReplies)
    \/ ClaudeRaised
    \/ CliSpawned(BOOLEAN)
    \/ CliLine(HistReplies, AllExits)
    \/ CliEOF(AllExits)

SpecHist == Boot(OldJournals) /\ [][NextHist]_vars

\* the turns that passed the connected check of agent.send
Started == { t \in 1..Len(tasks) :
               \E i \in TurnEvents : out[i].turn = t /\ out[i].info = "thinking" }

\* the entries turn t wrote to the journal of its pane
EntriesOf(t, role) ==
    SelectSeq(history[tasks[t].pane], LAMBDA e : e.turn = t /\ e.role = role)

\* the message is role markers and nothing else
BareMarker(m) == clean_role_markers(m) = <<>> /\ \E i \in 1..Len(m) : IsMarker(m[i])

\* the turn wrote no more than one assistant entry, after its user entry, and
\* none if its answer is empty once the role markers are stripped
AssistantEntryOk(t) ==
    LET a == EntriesOf(t, "assistant") IN
    /\ Len(a) <= 1
    /\ Len(a) = 1 =>
          /\ tasks[t].pc = "done"
          /\ clean_role_markers(tasks[t].acc) # <<>>
          /\ a[1].content = clean_role_markers(tasks[t].acc)
    /\ clean_role_markers(tasks[t].acc) = <<>> => Len(a) = 0

\* the one user entry of the turn holds the message, cleaned, and no preamble
UserEntryOk(t) ==
    LET u == EntriesOf(t, "user") IN
    /\ Len(u) = 1
    /\ u[1].content \in { clean_role_markers(tasks[t].msg),
                          clean_role_markers(sanitize_unicode(tasks[t].msg)) }
    /\ \A i \in 1..Len(u[1].content) : u[1].content[i] \notin {"P", "-"}

----------------------------------------------------------------------------
(* The protocol: ping, get_sessions, lines that are answered with an error,
   a failed connect at startup, sends to the first pane, stop and the end of
   stdin *)

UnknownNames == { "frobnicate", "SEND", "" }

\* send, broadcast, restart and interrupt without a field they need
LackingCmds ==
    { Cmd("send", "", <<"x">>, {}), Cmd("send", ClaudePane, <<>>, {}),
      Cmd("broadcast", "", <<>>, {}), Cmd("restart", "", <<>>, {}),
      Cmd("interrupt", "", <<>>, {}) }

\* lines that are no JSON object
BadLines == { Cmd(k, "", <<>>, {}) : k \in {"__error__", "__invalid_json__", "__not_object__"} }

ProtoCmds ==
    { Cmd("send", ClaudePane, <<"x">>, {}), Cmd("ping", "", <<>>, {}),
      Cmd("get_sessions", "", <<>>, {}), Cmd("stop", "", <<>>, {}) }
    \cup { Cmd(n, "", <<>>, {}) : n \in UnknownNames }
    \cup LackingCmds \cup BadLines

NextProto ==
    \/ Startup
    \/ StdinLine(ProtoCmds)
    \/ StdinError
    \/ EofPath
    \/ DispatchSend
    \/ DispatchPing
    \/ DispatchGetSessions
    \/ DispatchStdinError
    \/ DispatchInvalidJSON
    \/ DispatchNotObject
    \/ DispatchUnknown
    \/ DispatchMissingField
    \/ StopPath
    \/ SendMessageStart({TRUE})
    \/ ClaudeTurn(CoreReplies)
    \/ ClaudeRaised

SpecProto == Boot(FreshJournals) /\ [][NextProto]_vars

\* the loop takes the line at the head of the queue in this step
Takes == dpc = "loop" /\ queue # <<>> /\ queue' = Tail(queue)

ReadyEvents(o) == { i \in 1..Len(o) : o[i].type = "ready" }

\* the events start_all writes
StartupEvent(e) ==
    \/ e.type = "agent_started"
    \/ e.type = "error" /\ e.info = "start_failed"
    \/ e.type = "status" /\ e.info = "connected"
    \/ e.type = "system" /\ e.info = "restoring"

StartFailed(p) ==
    \E i \in 1..Len(out) : out[i].type = "error" /\ out[i].pane = p /\ out[i].info = "start_failed"

StartedOk(p) ==
    \E i \in 1..Len(out) : out[i].type = "agent_started" /\ out[i].pane = p

\* the ready event that lists the panes of the roster in their order
ReadyListed == [type |-> "ready", pane |-> "", turn |-> 0, info |-> "agents", count |-> 0,
                agents |-> [i \in 1..Len(Roster) |-> Roster[i].pane_id],
                resumed |-> FALSE, keys |-> {}]

\* C11: the step that enters the loop writes the first ready event, which
\* lists the panes in order, after the events of start_all for every pane and
\* before any other event; a step that takes a ping writes one more such
\* event; no other step writes a ready event
C11_ReadyOnce ==
    [][ IF dpc = "startup" /\ dpc' = "loop"
        THEN /\ ReadyEvents(out) = {}
             /\ out' = Append(out, ReadyListed)
             /\ \A i \in 1..Len(out) : StartupEvent(out[i])
             /\ \A p \in Panes : StartFailed(p) \/ StartedOk(p)
             /\ nread = 0
        ELSE IF Takes /\ Head(queue).command = "ping"
        THEN out' = Append(out, ReadyListed)
        ELSE Cardinality(ReadyEvents(out')) = Cardinality(ReadyEvents(out)) ]_vars

\* a pane failed to start, a ping was answered after a send was taken
C11_Witness ==
    /\ StartFailed(ClaudePane)
    /\ Cardinality(ReadyEvents(out)) = 2
    /\ \E i, j \in ReadyEvents(out) : \E k \in 1..Len(out) :
          i < k /\ k < j /\ out[k].type = "message_received"

\* the events of turn t, in order
EventsOf(t) == SelectSeq(out, LAMBDA e : e.turn = t)

\* C12: after startup every pane of the roster has its agent and exactly one
\* of agent_started and a start error; the agents that started are connected
\* while the loop runs; a send to a pane that failed to start is answered with
\* message_received and one error, and the loop goes on
C12_FailureIsolated ==
    dpc # "startup" =>
       /\ \A p \in Panes :
             /\ p \in DOMAIN agents
             /\ StartFailed(p) # StartedOk(p)
             /\ (StartedOk(p) /\ dpc = "loop") => objs[agents[p]].connected
             /\ StartFailed(p) =>
                   \A t \in 1..Len(tasks) :
                      (tasks[t].pane = p /\ tasks[t].agent # 0) =>
                         /\ Len(EventsOf(t)) = 2
                         /\ EventsOf(t)[1].type = "message_received"
                         /\ EventsOf(t)[2].type = "error"
                         /\ EventsOf(t)[2].info = "not_connected"
       /\ dctx.via = "" => dpc = "loop"

\* the first pane failed to start, the second started; a send to the first
\* was answered with an error and a later command was answered too
C12_Witness ==
    /\ dpc = "loop"
    /\ StartFailed(ClaudePane)
    /\ \E p \in Panes : StartedOk(p) /\ objs[agents[p]].connected
    /\ \E i, j \in 1..Len(out) :
          /\ i < j
          /\ out[i].type = "error" /\ out[i].info = "not_connected"
          /\ out[j].type = "sessions"

\* what no answer to a malformed line touches
Untouched == UNCHANGED << dpc, dctx, agents, objs, tasks, running_tasks, history, wire, files >>

\* C13: the step that takes an unknown command writes one error event that
\* names the command and changes nothing else
C13_UnknownCommand ==
    [][ (Takes /\ Head(queue).command \in UnknownNames) =>
           /\ Len(out') = Len(out) + 1
           /\ SubSeq(out', 1, Len(out)) = out
           /\ out'[Len(out')].type = "error"
           /\ out'[Len(out')].turn = 0
           /\ out'[Len(out')].info =
                 (IF Head(queue).command = "frobnicate"
                  THEN "Unknown command: frobnicate"
                  ELSE IF Head(queue).command = "SEND" THEN "Unknown command: SEND"
                  ELSE "Unknown command: None")
           /\ Untouched ]_vars

\* an unknown command was answered while a turn was in flight, and the turn
\* went on to its result
C13_Witness ==
    \E i, j, k \in 1..Len(out) :
       /\ i < j /\ j < k
       /\ out[i].type = "status" /\ out[i].info = "thinking"
       /\ out[j].type = "error" /\ out[j].info = "Unknown command: frobnicate"
       /\ out[k].type = "result" /\ out[k].turn = out[i].turn

\* the message that names what a command requires
Requirement(command) ==
    IF command = "send" THEN "send requires pane_id and message"
    ELSE IF command = "broadcast" THEN "broadcast requires message"
    ELSE IF command = "restart" THEN "restart requires pane_id"
    ELSE "interrupt requires pane_id"

\* C14: the step that takes a send, broadcast, restart or interrupt that
\* lacks a field writes one error event that names the requirement, starts no
\* task, touches no agent, and leaves the loop running
C14_MissingField ==
    [][ (Takes /\ Head(queue) \in LackingCmds) =>
           /\ out' = Append(out, [type |-> "error", pane |-> "", turn |-> 0,
                                   info |-> Requirement(Head(queue).command),
                                   count |-> 0, agents |-> <<>>,
                                   resumed |-> FALSE, keys |-> {}])
           /\ dpc' = "loop"
           /\ Untouched ]_vars

\* a send without a message and a restart without a pane were answered
C14_Witness ==
    \E i, j \in 1..Len(out) :
       /\ i # j
       /\ out[i].info = "send requires pane_id and message"
       /\ out[j].info = "restart requires pane_id"
       /\ tasks = <<>>

\* the lines that are a protocol error
ProtocolErrors ==
    BadLines \cup LackingCmds \cup { Cmd(n, "", <<>>, {}) : n \in UnknownNames }

\* C15: the step that takes a protocol error writes one error event, leaves
\* the lines behind it in the queue and the loop running; the loop is left
\* only by the step that takes stop or the end-of-input sentinel
C15_LoopSurvives ==
    [][ /\ (Takes /\ Head(queue) \in ProtocolErrors) =>
              /\ Len(out') = Len(out) + 1
              /\ out'[Len(out')].type = "error"
              /\ dpc' = "loop"
        /\ (dpc = "loop" /\ dpc' # "loop") =>
              (Takes /\ Head(queue).command \in {"stop", "__eof__"}) ]_vars

\* after a line that was no JSON, no object or tagged as a read error, a send
\* ran to its result
C15_Witness ==
    \E i, j \in 1..Len(out) :
       /\ i < j
       /\ out[i].type = "error"
       /\ out[i].info \in {"Invalid JSON", "IPC error", "stdin error"}
       /\ out[j].type = "result"

----------------------------------------------------------------------------
(* Interrupts *)

\* an outcome event of an interrupt of pane p
InterruptOutcome(e, p) ==
    /\ e.pane = p
    /\ \/ e.type = "interrupted"
       \/ e.type = "warning" /\ e.info = "no_interrupt"
       \/ e.type = "error" /\ e.info = "interrupt_failed"

\* C16: the step that takes an interrupt for a pane the manager holds either
\* writes one outcome event for the pane or waits for agent.interrupt(), and
\* the step in which that wait ends writes the one outcome event
C16_OneOutcome ==
    [][ /\ (Takes /\ Head(queue).command = "interrupt"
               /\ Head(queue).pane_id \in DOMAIN agents) =>
              \/ dpc' = "intr_wait" /\ out' = out
              \/ /\ dpc' = "loop"
                 /\ Len(out') = Len(out) + 1
                 /\ InterruptOutcome(out'[Len(out')], Head(queue).pane_id)
        /\ (dpc = "intr_wait" /\ dpc' # "intr_wait") =>
              /\ dpc' = "loop"
              /\ Len(out') = Len(out) + 1
              /\ InterruptOutcome(out'[Len(out')], dctx.pane) ]_vars

----------------------------------------------------------------------------
(* The end of a turn *)

\* the turns in which agent.send was called and has ended
Ended == { t \in 1..Len(tasks) : tasks[t].agent # 0 /\ tasks[t].pc = "done" }

\* C17: the last event of every turn that has ended is status idle
C17_IdleLast ==
    \A t \in Ended :
       LET e == EventsOf(t) IN
       /\ e # <<>>
       /\ e[Len(e)].type = "status"
       /\ e[Len(e)].info = "idle"

\* C18: the event that follows an error event of a turn on the pane of the
\* turn is status idle, and there is one once the turn has ended
C18_IdleAfterError ==
    \A i \in 1..Len(out) :
       (out[i].type = "error" /\ out[i].turn # 0) =>
          /\ \A j \in (i + 1)..Len(out) :
                (out[j].pane = out[i].pane
                    /\ \A k \in (i + 1)..(j - 1) : out[k].pane # out[i].pane)
                   => out[j].type = "status" /\ out[j].info = "idle"
          /\ out[i].turn \in Ended =>
                \E j \in (i + 1)..Len(out) : out[j].pane = out[i].pane

----------------------------------------------------------------------------
(* Errors inside a turn *)

\* turn t wrote an error event
Failed(t) == \E i \in 1..Len(out) : out[i].turn = t /\ out[i].type = "error"

\* C19: no step of a turn changes the connected flag of an agent or the
\* agent of a pane, and no send to an agent that started is refused as not
\* connected, whatever errors earlier turns ended with
C19_ErrorEndsTurnOnly ==
    [][ dpc # "startup" =>
          /\ agents' = agents
          /\ \A o \in 1..Len(objs) : objs'[o].connected = objs[o].connected
          /\ \A i \in 1..Len(out') : out'[i].info # "not_connected" ]_vars

\* a turn ended with an error, and a later send to the same pane ran a turn
\* to its result on the same agent
C19_Witness ==
    \E t, u \in Ended :
       /\ t < u
       /\ tasks[t].pane = tasks[u].pane
       /\ tasks[t].agent = tasks[u].agent
       /\ Failed(t)
       /\ ~Failed(u)
       /\ \E i, j, k \in 1..Len(out) :
             /\ i < j /\ j < k
             /\ out[i].turn = t /\ out[i].info = "idle"
             /\ out[j].turn = u /\ out[j].info = "thinking"
             /\ out[k].turn = u /\ out[k].type = "result"

----------------------------------------------------------------------------
(* Broadcasts, one after the other: every exclude list over the panes, a
   connect that may fail at startup, turns that may fail *)

BcastCmds == { Cmd("broadcast", "", <<"x">>, X) : X \in SUBSET Panes }

NextBcast ==
    \/ Startup
    \/ HostWaits(BcastCmds)
    \/ DispatchBroadcast
    \/ BroadcastStart
    \/ ChildStart({TRUE})
    \/ BroadcastDone
    \/ ClaudeTurn(CoreReplies)
    \/ ClaudeRaised
    \/ CliTurn(CoreReplies, AllExits)

SpecBcast == Boot(FreshJournals) /\ [][NextBcast]_vars

\* the broadcast tasks that are past their start
Broadcasts == { t \in 1..Len(tasks) : tasks[t].kind = "bcast" /\ tasks[t].pc # "created" }

\* the turns of broadcast t
TurnsOfBroadcast(t) == { c \in 1..Len(tasks) : tasks[c].kind = "child" /\ tasks[c].parent = t }

\* C20: a broadcast that has started has one turn for each pane that is not
\* excluded and none for an excluded pane, all created in the step that
\* starts it; none of them is cancelled; each that is past its start runs on
\* the agent of its pane; and the broadcast is done only when all are done
C20_BroadcastFansOut ==
    \A t \in Broadcasts :
       LET kids == TurnsOfBroadcast(t) IN
       /\ { tasks[c].pane : c \in kids } = Panes \ tasks[t].exclude
       /\ Cardinality(kids) = Cardinality(Panes \ tasks[t].exclude)
       /\ \A c \in kids :
             /\ ~tasks[c].cancel
             /\ tasks[c].msg = tasks[t].msg
             /\ tasks[c].pc # "created" => tasks[c].agent = agents[tasks[c].pane]
       /\ \A i \in 1..Len(out) :
             (out[i].turn # 0 /\ tasks[out[i].turn].parent = t)
                => out[i].pane \notin tasks[t].exclude
       /\ tasks[t].pc = "done" => \A c \in kids : tasks[c].pc = "done"
       /\ tasks[t].pc # "done" => t \in running_tasks

\* a broadcast to both panes is done; the turns overlapped, one of them
\* ended with an error and the other reached its result after that error
C20_Witness ==
    \E t \in Broadcasts : \E c, d \in TurnsOfBroadcast(t) :
       /\ tasks[t].pc = "done"
       /\ c # d
       /\ Failed(c) /\ ~Failed(d)
       /\ \E i, j, k, l \in 1..Len(out) :
             /\ i < j /\ j < k /\ k < l
             /\ out[i].turn = d /\ out[i].info = "thinking"
             /\ out[j].turn = c /\ out[j].info = "thinking"
             /\ out[k].turn = c /\ out[k].type = "error"
             /\ out[l].turn = d /\ out[l].type = "result"

----------------------------------------------------------------------------
(* The announcement of a turn *)

\* the turns routed to an agent: agent.send was called for them
Routed == { t \in 1..Len(tasks) : tasks[t].agent # 0 }

\* C21: every turn routed to the agent of a pane, by a send or a broadcast,
\* has exactly one message_received event and it is the first event of the
\* turn; a send to a pane the manager does not hold has an error and no
\* message_received
C21_Announced ==
    /\ \A t \in Routed :
          LET e == EventsOf(t) IN
          /\ e # <<>>
          /\ e[1].type = "message_received"
          /\ \A i \in 2..Len(e) : e[i].type # "message_received"
    /\ \A t \in 1..Len(tasks) :
          (tasks[t].kind = "send" /\ tasks[t].pc = "done" /\ tasks[t].agent = 0
              /\ ~tasks[t].cancel) =>
             /\ \E i \in 1..Len(out) : out[i].turn = t /\ out[i].type = "error"
             /\ \A i \in 1..Len(out) : out[i].turn = t => out[i].type # "message_received"

----------------------------------------------------------------------------
(* Sessions: saved tokens at startup, restarts, the tokens saved at shutdown.
   The host writes a command when the turns of the one before are over. *)

\* the pane the settings can give to Gemini
GeminiPane == "2"

\* a session-state.json an earlier run left: a token for each pane, and a key
\* of the host's
SavedStore == Store("object", TRUE, [p \in Panes |-> SavedToken], { <<"layout", "v">> })

\* a session-state.json json.load rejects
GarbageStore == Store("garbage", FALSE, NoSessions, {})

SessFiles ==
    { [store |-> st, models |-> m, tenacity |-> TRUE, writable |-> TRUE] :
        st \in { NoStore, SavedStore, GarbageStore },
        m \in { NoOverride, [p \in {GeminiPane} |-> "gemini"] } }

\* the ways a process can end, a resume the CLI refuses among them
SessExits == AllExits \cup {"fail_expired"}

SessCmds ==
    { Cmd("send", p, <<"x">>, {}) : p \in Panes }
    \cup { Cmd("restart", p, <<>>, {}) : p \in Panes }
    \cup { Cmd("stop", "", <<>>, {}) }

NextSess ==
    \/ StartAgent({TRUE})
    \/ EnterLoop
    \/ HostWaits(SessCmds)
    \/ DispatchSend
    \/ DispatchRestart
    \/ RestartDisconnected
    \/ RestartConnected(BOOLEAN)
    \/ DispatchStop
    \/ StopAllDisconnected
    \/ SendMessageStart({TRUE})
    \/ ClaudeTurn(CoreReplies)
    \/ ClaudeRaised
    \/ CliTurn(CoreReplies, SessExits)
    \/ CliProviderLine({"session"}, SessExits)

SpecSess == BootWith(FreshJournals, SessFiles) /\ [][NextSess]_vars

\* an agent that holds no session token
FreshSession(a) ==
    /\ a.session_id = NoToken
    /\ a.thread_id = NoToken
    /\ a.session_index = NoToken

\* what the step wrote ends with agent_restarted and status idle (Restarted)
\* for pane p, and holds no error
RestartAnnounced(before, after, p, model) ==
    /\ Len(after) >= Len(before) + 2
    /\ SubSeq(after, 1, Len(before)) = before
    /\ after[Len(after) - 1] = Ev("agent_restarted", p, 0, model)
    /\ after[Len(after)] = Ev("status", p, 0, "idle_restarted")
    /\ \A i \in Len(before) + 1 .. Len(after) : after[i].type # "error"

\* C22: the step that puts a new agent under a pane leaves the old one
\* disconnected; the new one has the old one's role, pane and model and no
\* session token; once its connect is over it is connected, still without a
\* token, and agent_restarted then status idle (Restarted) are written, or the
\* connect failed and one error is written instead; either way the loop goes on
C22_Restart ==
    [][ /\ \A p \in DOMAIN agents :
             agents'[p] # agents[p] =>
                LET old == objs[agents[p]]
                    new == objs'[agents'[p]]
                IN  /\ ~objs'[agents[p]].connected
                    /\ new.role = old.role
                    /\ new.pane = old.pane
                    /\ new.model = old.model
                    /\ FreshSession(new)
                    /\ IF new.model = "claude"
                       THEN dpc' = "restart_conn" /\ dctx'.obj = agents'[p]
                       ELSE /\ new.connected
                            /\ dpc' = "loop"
                            /\ RestartAnnounced(out, out', p, new.model)
        /\ (dpc = "restart_conn" /\ dpc' # dpc) =>
             LET new == objs'[dctx.obj] IN
             /\ dpc' = "loop"
             /\ agents' = agents
             /\ FreshSession(new)
             /\ \/ new.connected /\ RestartAnnounced(out, out', dctx.pane, "claude")
                \/ /\ ~new.connected
                   /\ out' = Append(out, Ev("error", dctx.pane, 0, "restart_failed")) ]_vars

\* a pane was restarted whose agent held a session token: it has a new,
\* connected agent without one
C22_Witness ==
    /\ \E p \in DOMAIN agents, o \in 1..Len(objs) :
          /\ o # agents[p]
          /\ objs[o].pane = p
          /\ ~FreshSession(objs[o])
          /\ objs[agents[p]].connected
          /\ FreshSession(objs[agents[p]])
          /\ \E i \in 1..Len(out) : out[i].type = "agent_restarted" /\ out[i].pane = p

\* the tokens the agents of pane p got from the provider's events
Captured(p) ==
    { tok \in UNION { { objs[o].session_id, objs[o].thread_id, objs[o].session_index } :
                        o \in { i \in 1..Len(objs) : objs[i].pane = p } } :
        tok.src = "provider" }

\* the one of them that was captured last
LastCaptured(p) == CHOOSE tok \in Captured(p) : \A u \in Captured(p) : u.n <= tok.n

\* the all_stopped events written
AllStopped == SelectSeq(out, LAMBDA e : e.type = "all_stopped")

\* C23: when the program has ended, session-state.json holds for every pane
\* that captured a session token the last one it captured, and the last
\* all_stopped event counts the panes the file holds
C23_LastTokenSaved ==
    dpc = "exited" =>
       /\ \A p \in Panes :
             Captured(p) # {} =>
                /\ files.store.kind = "object"
                /\ p \in DOMAIN files.store.sdk_sessions
                /\ files.store.sdk_sessions[p] = LastCaptured(p)
       /\ AllStopped # <<>>
       /\ AllStopped[Len(AllStopped)].count = Cardinality(DOMAIN files.store.sdk_sessions)

----------------------------------------------------------------------------
(* The session store: runs over the session-state.json files the workspace
   can hold, with turns that capture tokens and the stop that saves them *)

\* the top-level keys of the host's the file may hold, with their values
HostKeys == { <<"layout", "v">>, <<"theme", "d">> }

\* the sdk_sessions an earlier run may have left
OldSessions ==
    { NoSessions, [p \in Panes |-> SavedToken], [p \in {GeminiPane} |-> SavedToken] }

StoreFiles ==
    { [store |-> st, models |-> NoOverride, tenacity |-> TRUE, writable |-> TRUE] :
        st \in { NoStore, GarbageStore, Store("array", FALSE, NoSessions, {}) }
               \cup { Store("object", FALSE, NoSessions, k) : k \in SUBSET HostKeys }
               \cup { Store("object", TRUE, ss, k) : ss \in OldSessions, k \in SUBSET HostKeys } }

StoreCmds == { Cmd("send", p, <<"x">>, {}) : p \in Panes } \cup { Cmd("stop", "", <<>>, {}) }

NextStore ==
    \/ StartAgent({TRUE})
    \/ EnterLoop
    \/ HostWaits(StoreCmds)
    \/ DispatchSend
    \/ DispatchStop
    \/ StopAllDisconnected
    \/ SendMessageStart({TRUE})
    \/ ClaudeTurn(CoreReplies)
    \/ CliTurn(CoreReplies, AllExits)
    \/ CliProviderLine({"session"}, AllExits)

SpecStore == BootWith(FreshJournals, StoreFiles) /\ [][NextStore]_vars

\* the map stop_all hands to _save_sessions: the tokens the agents'
\* disconnect() return
SessionsToSave ==
    LET held == { p \in DOMAIN agents : DisconnectReturn(objs[agents[p]]) # NoToken }
    IN  [p \in held |-> DisconnectReturn(objs[agents[p]])]

\* C24: a stop_all that ends over a file that is missing or a JSON object
\* leaves a file from which _load_sessions returns exactly the map that was
\* saved, with every other top-level key and its value as before; and from a
\* file that is missing, unparsable or no object _load_sessions returns the
\* empty map, so that no agent is started with a saved token
C24_RoundTrip ==
    [][ /\ (Len(AllStopped') > Len(AllStopped) /\ ~Unusable(files.store)) =>
             /\ _load_sessions(files'.store) = SessionsToSave'
             /\ files'.store.kind = "object"
             /\ files'.store.other = files.store.other
        /\ (files.store.kind # "object") =>
             /\ _load_sessions(files.store) = NoSessions
             /\ \A i \in 1..Len(out') :
                   out'[i].type \in {"agent_started", "status"} => ~out'[i].resumed ]_vars

\* a file that held keys of the host's and saved sessions was saved over
\* with a token captured in this run
C24_Witness ==
    /\ dpc = "exited"
    /\ files.store.other = HostKeys
    /\ \E p \in DOMAIN files.store.sdk_sessions : files.store.sdk_sessions[p].src = "provider"
    /\ \E i \in 1..Len(out) : out[i].type = "agent_started" /\ out[i].resumed

\* the tokens agent a holds
TokensOf(a) == { a.session_id, a.thread_id, a.session_index }

\* C25: only a Codex agent is connected with a saved token: no agent of
\* another kind holds one, no agent_started or connected event of another
\* kind's pane says resumed, and a Codex agent whose pane has a saved token
\* is started with it
C25_ResumeCodexOnly ==
    /\ \A o \in 1..Len(objs) :
          objs[o].model # "codex" => SavedToken \notin TokensOf(objs[o])
    /\ \A i \in 1..Len(out) :
          (out[i].type \in {"agent_started", "status"} /\ out[i].resumed) =>
             \E o \in 1..Len(objs) : objs[o].pane = out[i].pane /\ objs[o].model = "codex"
    /\ \A i \in 1..Len(out) :
          (out[i].type = "agent_started" /\ out[i].info = "codex"
             /\ out[i].pane \in DOMAIN _load_sessions(files.store)
             /\ _load_sessions(files.store)[out[i].pane] = SavedToken) => out[i].resumed

\* the turns whose command line resumed a session the CLI reported as not
\* found or expired
ExpiredTurns ==
    { t \in Ended : /\ tasks[t].resumes # NoToken
                    /\ \E i \in 1..Len(out) : /\ out[i].turn = t
                                              /\ out[i].info = "exit_code_thread_not_found" }

\* C26: a turn that resumed a thread the CLI reports as not found or expired
\* leaves the agent without that thread id and has written status
\* thread_expired_restarting (the announcement of the fresh retry), and no
\* later turn of the agent resumes the thread
C26_ThreadExpiry ==
    \A t \in ExpiredTurns :
       LET e == EventsOf(t) IN
       /\ objs[tasks[t].agent].thread_id # tasks[t].resumes
       /\ \E i \in 1..Len(e) : e[i].type = "status" /\ e[i].info = "thread_expired_restarting"
       /\ \A u \in 1..Len(tasks) :
             (u > t /\ tasks[u].agent = tasks[t].agent) => tasks[u].resumes # tasks[t].resumes

----------------------------------------------------------------------------
(* The retries of a Claude query: sends to the Claude pane, one turn after
   another, whose query can raise, with and without the tenacity package *)

RetryFiles == { [CleanInstall EXCEPT !.tenacity = b] : b \in BOOLEAN }

RetryCmds == { Cmd("send", ClaudePane, <<"x">>, {}) }

NextRetry ==
    \/ StartAgent({TRUE})
    \/ EnterLoop
    \/ HostWaits(RetryCmds)
    \/ DispatchSend
    \/ SendMessageStart({TRUE})
    \/ ClaudeQueryFailed({"transient", "fatal"})
    \/ ClaudeRetry
    \/ ClaudeTurn(CoreReplies)
    \/ ClaudeRaised

SpecRetry == BootWith(FreshJournals, RetryFiles) /\ [][NextRetry]_vars

\* C27: the query of a turn is handed to the client at most MaxAttempts
\* times, each time but the first after an attempt that raised a transient
\* error; an attempt that raised another error is the last one, and the turn
\* has ended with an error
C27_BoundedRetry ==
    \A t \in Routed :
       LET n == Attempts(wire, t)
           f == tasks[t].fails
       IN  /\ n <= MaxAttempts
           /\ n <= Len(f) + 1
           /\ \A i \in 1..Len(f) :
                 IF f[i] = "transient"
                 THEN i < n \/ tasks[t].pc \in {"backoff", "done"}
                 ELSE /\ i = Len(f)
                      /\ n = i
                      /\ tasks[t].pc = "done"
                      /\ Failed(t)

\* one turn gave up after MaxAttempts attempts that raised transient errors,
\* another ended after the one attempt that raised another error
C27_Witness ==
    \E t, u \in Routed :
       /\ Attempts(wire, t) = MaxAttempts
       /\ tasks[t].fails = [i \in 1..MaxAttempts |-> "transient"]
       /\ tasks[t].pc = "done"
       /\ Attempts(wire, u) = 1
       /\ tasks[u].fails = <<"fatal">>
       /\ tasks[u].pc = "done"

\* the turns whose attempts all raised transient errors, MaxAttempts of them
Exhausted ==
    { t \in Ended : tasks[t].fails = [i \in 1..MaxAttempts |-> "transient"] }

\* C28: a turn whose attempts all raised transient errors has one error event,
\* its message is the one that begins with "Claude API retry failed: ", and
\* the event after it is the last of the turn, status idle
C28_RetryFailedMessage ==
    \A t \in Exhausted :
       LET e == EventsOf(t) IN
       /\ Len(e) >= 2
       /\ e[Len(e) - 1] = Ev("error", tasks[t].pane, t, "retry_failed")
       /\ e[Len(e)] = Ev("status", tasks[t].pane, t, "idle")

----------------------------------------------------------------------------
(* The events of a CLI turn: sends to the second pane, run by Codex or by
   Gemini, one turn after another, in runs in which every CLI process exits
   with a non-zero code *)

\* a process that ended with a non-zero exit code: with text on stderr, with
\* nothing on stderr, with the report that the thread is gone
NonZeroExits == { "fail_msg", "fail_quiet", "fail_expired" }

CliFiles == { [CleanInstall EXCEPT !.models = m] :
                m \in { NoOverride, [p \in {GeminiPane} |-> "gemini"] } }

CliCmds == { Cmd("send", GeminiPane, <<"x">>, {}) }

NextCli ==
    \/ StartAgent({TRUE})
    \/ EnterLoop
    \/ HostWaits(CliCmds)
    \/ DispatchSend
    \/ SendMessageStart({TRUE})
    \/ CliSpawned({TRUE})
    \/ CliLine(CoreReplies, NonZeroExits)
    \/ CliProviderLine(ProviderLines, NonZeroExits)
    \/ CliEOF(NonZeroExits)

SpecCli == BootWith(FreshJournals, CliFiles) /\ [][NextCli]_vars

\* C29: every tool_use event has the fields name and input, every
\* tool_result event the field content
C29_ToolFields ==
    \A i \in 1..Len(out) :
       /\ out[i].type = "tool_use" => {"name", "input"} \subseteq out[i].keys
       /\ out[i].type = "tool_result" => "content" \in out[i].keys

\* C30: in runs whose CLI processes all exit non-zero, every turn that waited
\* for its process has written an error (the report of the exit) before its
\* result, and the result says is_error; so that a result that follows an
\* error event of its turn says is_error
C30_ExitReported ==
    \A t \in Ended :
       LET e == EventsOf(t) IN
       \A i \in 1..Len(e) :
          e[i].type = "result" =>
             /\ e[i].info = "is_error"
             /\ \E j \in 1..(i - 1) : e[j].type = "error"

----------------------------------------------------------------------------
(* The text of a message: one send to the Codex pane, of every text of up to
   MaxLen tokens out of a role marker in a listed and in an unlisted letter
   case, white space and an ordinary character *)

TextAlphabet == { "x", " ", "H", "h" }

Texts == UNION { [1..k -> TextAlphabet] : k \in 0..MaxLen }

\* texts of one token more than an entry holds: without a marker, and with
\* one that is the last token an entry has room for
LongTexts ==
    { [i \in 1..HistoryLimit + 1 |-> "x"],
      [i \in 1..HistoryLimit + 1 |-> IF i = HistoryLimit THEN "H" ELSE "x"] }

TextCmds == { Cmd("send", "2", m, {}) : m \in Texts \cup LongTexts }

\* from now on an append to a history file raises (the disk is full, the
\* directory is read-only)
HistoryUnwritable ==
    /\ files.writable
    /\ files' = [files EXCEPT !.writable = FALSE]
    /\ UNCHANGED << stdin_eof, nread, queue, dpc, dctx, agents, objs, tasks,
                    running_tasks, out, history, wire >>

\* the host writes one line
HostOnce(C) == nread = 0 /\ StdinLine(C)

NextText ==
    \/ StartAgent({TRUE})
    \/ EnterLoop
    \/ HostOnce(TextCmds)
    \/ DispatchSend
    \/ SendMessageStart({TRUE})
    \/ CliSpawned({TRUE})
    \/ CliLine(HistReplies, {"ok"})
    \/ CliEOF({"ok"})
    \/ HistoryUnwritable

SpecText == Boot(FreshJournals) /\ [][NextText]_vars

\* the text neither starts nor ends with a token of S
Bare(s, S) == s = <<>> \/ (Head(s) \notin S /\ s[Len(s)] \notin S)

\* the turns whose message went through _save_to_history
Saved == { t \in Started : tasks[t].pane = "2" }

C32_AnyCase ==
    \A t \in Saved :
       \A m \in {"H", "h"} :
          LET msg == tasks[t].msg
              inner == IF Len(msg) >= 2 THEN StripWs(SubSeq(msg, 2, Len(msg) - 1)) ELSE <<>>
          IN  (/\ Len(msg) >= 3
               /\ Head(msg) = m
               /\ msg[Len(msg)] = m
               /\ inner # <<>>
               /\ Bare(inner, {"H", "h"}))
              => \A i \in 1..Len(EntriesOf(t, "user")) :
                    EntriesOf(t, "user")[i].content = inner

----------------------------------------------------------------------------
(* The events of a turn: sends to every target, one turn at a time, with
   interrupts while a turn runs, and every line a CLI can write *)

OrderSends == { Cmd("send", p, <<"x">>, {}) : p \in Targets }

OrderInterrupts == { Cmd("interrupt", p, <<>>, {}) : p \in Panes }

NextOrder ==
    \/ StartAgent({TRUE})
    \/ EnterLoop
    \/ HostWaits(OrderSends)
    \/ StdinLine(OrderInterrupts)
    \/ DispatchSend
    \/ DispatchInterrupt
    \/ InterruptReturned
    \/ SendMessageStart({TRUE})
    \/ ClaudeTurn(CoreReplies)
    \/ CliTurn(CoreReplies, AllExits)
    \/ CliProviderLine(ProviderLines, AllExits)
    \/ CliWaited(AllExits)

SpecOrder == BootWith(FreshJournals, CliFiles) /\ [][NextOrder]_vars

\* the events that carry what the provider answered
ContentTypes == { "assistant", "text_delta", "tool_use", "tool_result" }

----------------------------------------------------------------------------
(* The set of running tasks, under every command *)

\* the tasks the loop created for a send or a broadcast that are not done
Spawned(tk) == { t \in 1..Len(tk) : tk[t].kind \in {"send", "bcast"} /\ tk[t].pc # "done" }

Holds(c, r) ==
    /\ Len(c) <= HistoryLimit
    /\ IsPrefix(c, r)
    /\ Len(c) = Len(r) \/ Len(c) = HistoryLimit

\* the step appends to the journal of pane p one entry of turn t for the
\* text content, or nothing if the text is markers and white space only or
\* the file cannot be written
Appends(p, t, role, content) ==
    LET r == clean_role_markers(content) IN
    IF r = <<>> \/ ~files.writable
    THEN history'[p] = history[p]
    ELSE /\ Len(history'[p]) = Len(history[p]) + 1
         /\ IsPrefix(history[p], history'[p])
         /\ LET e == history'[p][Len(history'[p])] IN
            /\ e.role = role /\ e.turn = t
            /\ Holds(e.content, r)

\* C35: the step in which a Codex turn starts makes one call for its message
\* and the step in which it writes its result one for its answer, if that is
\* not empty; each call appends nothing if the text is empty once the markers
\* are stripped, and otherwise one entry that holds the stripped text up to
\* the limit; if the file cannot be written nothing is appended and the turn
\* goes on as it would; no other step appends
C35_HistoryAppend ==
    [][ \A p \in Panes :
          LET starts == { t \in Started' \ Started : tasks'[t].pane = p }
              ends == { t \in Ended' \ Ended : tasks'[t].pane = p }
          IN  /\ \A t \in starts :
                    /\ Appends(p, t, "user", tasks[t].msg)
                    /\ tasks'[t].pc = "spawn"
              /\ \A t \in ends :
                    /\ Appends(p, t, "assistant", StripWs(tasks[t].acc))
                    /\ \E i \in 1..Len(out') : out'[i].turn = t /\ out'[i].type = "result"
                                               /\ out'[i].info = "ok"
              /\ (starts = {} /\ ends = {}) => history'[p] = history[p] ]_vars

\* a turn whose message was longer than the limit has an entry of the size of
\* the limit, the file could not be written when its answer, which was not
\* empty, was to be saved, and it ended with its result
C35_Witness ==
    \E t \in Ended :
       /\ Len(tasks[t].msg) > HistoryLimit
       /\ Len(history[tasks[t].pane]) = 1
       /\ Len(history[tasks[t].pane][1].content) = HistoryLimit
       /\ clean_role_markers(tasks[t].acc) # <<>>
       /\ ~files.writable
       /\ \E i \in 1..Len(out) : out[i].turn = t /\ out[i].type = "result"

----------------------------------------------------------------------------
(* Interrupts of the CLI agents *)

\* the positions of the events the step writes
Written == (Len(out) + 1)..Len(out')

\* the step takes an interrupt for a pane whose connected agent runs a CLI
InterruptsCli(p) ==
    /\ Takes
    /\ Head(queue).command = "interrupt"
    /\ Head(queue).pane_id = p
    /\ p \in DOMAIN agents
    /\ objs[agents[p]].connected
    /\ objs[agents[p]].model # "claude"

\* the agent of pane p has a process that has not ended
Live(p) ==
    LET h == objs[agents[p]].process IN h # 0 /\ tasks[h].proc = "running"

\* C36: a step that takes an interrupt for a CLI agent sets its flag and, if
\* the agent has a process that has not ended, terminates it and begins the
\* wait for its exit, and otherwise answers with the warning at once;
\* interrupted is written for a CLI pane only by the step in which that wait
\* is over; and once it is written no turn that had started on the pane
\* before writes a text, tool_use or tool_result event
C36_CliInterrupt ==
    [][ \A p \in Panes :
          /\ InterruptsCli(p) =>
                /\ objs'[agents[p]].intr
                /\ IF Live(p)
                   THEN /\ tasks'[objs[agents[p]].process].proc # "running"
                        /\ dpc' = "intr_wait"
                        /\ Written = {}
                   ELSE /\ dpc' = "loop"
                        /\ \E i \in Written : out'[i].type = "warning" /\ out'[i].pane = p
          /\ \A i \in Written :
                (/\ out'[i].pane = p
                 /\ p \in DOMAIN agents
                 /\ objs[agents[p]].model # "claude")
                => /\ out'[i].type = "interrupted" => dpc = "intr_wait"
                   /\ out'[i].type \in ContentTypes =>
                         \A j, k \in 1..Len(out) :
                            (out[j].turn = out'[i].turn /\ out[k].type = "interrupted"
                               /\ out[k].pane = p) => k < j ]_vars

\* the turns a send or a broadcast addressed to pane p that have not written
\* their result
Pending(p) ==
    { t \in 1..Len(tasks) :
        /\ tasks[t].kind \in {"send", "child"}
        /\ tasks[t].pane = p
        /\ tasks[t].pc # "done"
        /\ \A i \in 1..Len(out) : ~(out[i].turn = t /\ out[i].type = "result") }

\* C37: a step that takes an interrupt for a CLI pane while a turn sent to
\* the pane has not written its result, be it a task that has not started or
\* a turn that has no process yet, leaves no process of such a turn running,
\* writes no warning, and either begins the wait that ends with interrupted
\* or writes interrupted itself
C37_NoLostInterrupt ==
    [][ \A p \in Panes :
          (InterruptsCli(p) /\ Pending(p) # {}) =>
             /\ \A t \in Pending(p) : tasks'[t].proc # "running"
             /\ \A i \in Written : out'[i].type # "warning"
             /\ \/ dpc' = "intr_wait"
                \/ \E i \in Written : out'[i].type = "interrupted" /\ out'[i].pane = p ]_vars

----------------------------------------------------------------------------
(* The sessions reported: get_sessions between turns of the three kinds of
   agent, over the session files an earlier run may have left *)

ReportCmds ==
    { Cmd("send", p, <<"x">>, {}) : p \in Panes }
    \cup { Cmd("get_sessions", "", <<>>, {}) }

NextReport ==
    \/ StartAgent({TRUE})
    \/ EnterLoop
    \/ HostWaits(ReportCmds)
    \/ DispatchSend
    \/ DispatchGetSessions
    \/ SendMessageStart({TRUE})
    \/ ClaudeTurn(CoreReplies)
    \/ CliTurn(CoreReplies, {"ok"})
    \/ CliProviderLine({"session"}, {"ok"})

SpecReport == BootWith(FreshJournals, SessFiles) /\ [][NextReport]_vars

\* C38: the map a get_sessions reports is the map stop_all would save in
\* that state: the same panes, and for each the token disconnect returns
C38_ReportIsSaved ==
    [][ (Takes /\ Head(queue).command = "get_sessions") =>
           /\ get_all_sessions(agents, objs) = SessionsToSave
           /\ \E i \in Written : /\ out'[i].type = "sessions"
                                 /\ out'[i].keys = DOMAIN SessionsToSave ]_vars

----------------------------------------------------------------------------
(* The end of a run, by stop and by the end of stdin *)

\* the disconnected events of pane p
Disconnects(p) ==
    { i \in 1..Len(out) :
        out[i].type = "status" /\ out[i].info = "disconnected" /\ out[i].pane = p }

\* C39: in a run without restarts all_stopped is written at most once, by the
\* one stop_all that also writes the session file, every pane has at most one
\* disconnected event, and a run that has ended has its all_stopped
C39_ShutdownOnce ==
    /\ Len(AllStopped) <= 1
    /\ \A p \in Panes : Cardinality(Disconnects(p)) <= 1
    /\ dpc = "exited" => Len(AllStopped) = 1

\* turn t wrote an event before a restart of its pane was announced
PreRestart(t) ==
    \E i, k \in 1..Len(out) :
       /\ i < k
       /\ out[i].turn = t
       /\ out[k].type = "agent_restarted"
       /\ out[k].pane = tasks[t].pane

\* the entries turn t has in the journals h
WrittenBy(h, t) == SelectSeq(h[tasks[t].pane], LAMBDA e : e.turn = t)

\* C40: once agent_restarted is written for a pane, a turn that was in
\* flight on the pane writes no further event and no further entry of the
\* journal of the pane
C40_RestartEndsTurn ==
    [][ \A t \in 1..Len(tasks) :
          PreRestart(t) =>
             /\ \A i \in Written : out'[i].turn # t
             /\ WrittenBy(history', t) = WrittenBy(history, t) ]_vars

====
